---- MODULE Spec2Model ----
(***************************************************************************)
(* State-machine model of the detection-stabilisation core of the          *)
(* repository: the two tag smoothers (src/filters), the 5-class state      *)
(* engine (src/engine), the people-count smoother (src/filters), the       *)
(* offline session builder and report (src/report/builder.py), the frame   *)
(* scheduler (src/runtime/frame_scheduler.py), the state normalisation of  *)
(* the event contract (src/core/contracts/state.py) and the reader queue   *)
(* and target-ratio feedback of the video worker (src/ui_qt/worker.py).    *)
(*                                                                         *)
(* Each component is an independent object in the source, so each has its  *)
(* own group of variables, its own actions and its own specification; the  *)
(* variables of the components a specification does not drive keep their   *)
(* constructed values.  Times are integers (ticks); Python's None is the   *)
(* string "None".                                                          *)
(***************************************************************************)
EXTENDS Integers, Sequences, FiniteSets, TLC

(***************************************************************************)
(* Bounds of the model.                                                    *)
(***************************************************************************)
\* thresholds of the tag smoothers are drawn from 1..MaxThreshold
MaxThreshold == 2
\* number of update calls a tag smoother receives
MaxUpdates == 7
\* number of update calls a smoother with the default thresholds receives
MaxDefaultUpdates == 12
\* debounce_k of the state engine is drawn from 1..MaxDebounceK
MaxDebounceK == 3
\* number of compute calls the state engine receives
MaxCalls == 5

\* number of frames given to the session builder
MaxFrames == 4
\* consecutive frames of the builder's input are 0..MaxDt ticks apart
MaxDt == 2
\* sampling_start_s is drawn from 1..MaxSamplingStart
MaxSamplingStart == 2
\* sampling_end_s is drawn from 0..MaxSamplingEnd
MaxSamplingEnd == 3
\* gap_allow_sampling_s is drawn from 1..MaxGapAllow
MaxGapAllow == 1

\* a frame's people_count is drawn from 1..MaxPeopleCount
MaxPeopleCount == 3

\* unblocked_alarm_s is drawn from 1..MaxUnblockedAlarm
MaxUnblockedAlarm == 2
\* gap_allow_unblocked_s is drawn from 0..MaxGapAllowUnblocked
MaxGapAllowUnblocked == 1
\* sampling_min_s of the reports
MaxSamplingMin == 3
\* people_grace_s is drawn from 1..MaxPeopleGrace
MaxPeopleGrace == 1

\* video_fps is drawn from 1..MaxFps
MaxFps == 2
\* warmup_frames is drawn from 0..MaxWarmup
MaxWarmup == 2
\* the max_allowed_step argument is drawn from 0..MaxAllowedStepArg
MaxAllowedStepArg == 3
\* the min_step argument is drawn from 0..MaxMinStepArg
MaxMinStepArg == 2
\* a measured latency is 0..MaxLatency seconds
MaxLatency == 3
\* number of next_index calls the scheduler receives
MaxSchedCalls == 3
\* total_frames, where the caller passes it
MaxTotalFrames == 4

\* number of update calls the people smoother receives
MaxPeopleFrames == 4
\* the tracker reports track ids 1..MaxTracks
MaxTracks == 2
\* max_id_age is drawn from 1..MaxIdAge
MaxIdAge == 2
\* active_id_age is drawn from 0..MaxActiveIdAge
MaxActiveIdAge == 1
\* min_track_hits is drawn from 1..MaxTrackHits
MaxTrackHits == 2
\* number of update calls a people smoother has received before it is
\* observed, where it is observed late in its life
WarmFrames == 24
\* number of update calls such a smoother receives then
MaxLateFrames == 2

None == "None"

(***************************************************************************)
(* Tag smoothers: SamplingCloseSmoother and BlockingSmoother.              *)
(* One smoother instance is modelled at a time; smoother_class says which  *)
(* class was constructed.                                                  *)
(***************************************************************************)
VARIABLES
    smoother_class,   \* "SamplingCloseSmoother" or "BlockingSmoother"
    thresholds,       \* cfg.thresholds : tag -> [on_count, off_count]
    force_one_of,     \* cfg.force_one_of (the empty set for None)
    tag_state,        \* self._state : tag -> [active, on_count, off_count]
    last_active,      \* self._last_active
    last_debug,       \* self._last_debug (raw presence and counters)
    tags_stable,      \* the TagsStable.tags returned by the last update
    n_updates,        \* number of update calls so far
    seen_run,         \* history: tag -> [present, absent], the lengths of the
                      \* current runs of frames that fed / did not feed the tag
    prev_nonempty,    \* history: the most recent non-empty set returned
                      \* before the last update ({} if there was none)
    was_active        \* history: tag -> active before the last update

tagVars == <<smoother_class, thresholds, force_one_of, tag_state, last_active,
             last_debug, tags_stable, n_updates, seen_run, prev_nonempty,
             was_active>>

TagsC == {"close", "sampling"}
TagsD == {"blocking", "no_blocking"}

Vocabulary(class) == IF class = "BlockingSmoother" THEN TagsD ELSE TagsC

TagHysteresis(lo, hi) == [on_count : lo..hi, off_count : lo..hi]

\* _TagState()
NewTagState == [active |-> FALSE, on_count |-> 0, off_count |-> 0]

\* The state after __init__ of one smoother whose class is in classes, with
\* every threshold in lo..hi and force_one_of in forces.
SmootherInit(classes, lo, hi, forces) ==
    /\ smoother_class \in classes
    /\ thresholds \in [Vocabulary(smoother_class) -> TagHysteresis(lo, hi)]
    /\ force_one_of \in IF smoother_class = "BlockingSmoother" THEN forces ELSE {{}}
    /\ tag_state = [tag \in Vocabulary(smoother_class) |-> NewTagState]
    /\ last_active = {}
    /\ last_debug = [tag \in Vocabulary(smoother_class) |->
                        [raw |-> FALSE, on |-> 0, off |-> 0]]
    /\ tags_stable = {}
    /\ n_updates = 0
    /\ seen_run = [tag \in Vocabulary(smoother_class) |-> [present |-> 0, absent |-> 0]]
    /\ prev_nonempty = {}
    /\ was_active = [tag \in Vocabulary(smoother_class) |-> FALSE]

\* Mutant of SamplingCloseTagUpdate: activation needs one frame more.
SamplingCloseTagUpdateLate(state, present, th) ==
    LET on  == IF present THEN state.on_count + 1 ELSE 0
        off == IF present THEN 0 ELSE state.off_count + 1
        a1  == IF ~state.active /\ on > th.on_count THEN TRUE ELSE state.active
        a2  == IF a1 /\ off >= th.off_count THEN FALSE ELSE a1
    IN  [active |-> a2, on_count |-> on, off_count |-> off]

\* SamplingCloseSmoother.update, the body of the loop over the tags.
SamplingCloseTagUpdate(state, present, th) ==
    LET on  == IF present THEN state.on_count + 1 ELSE 0
        off == IF present THEN 0 ELSE state.off_count + 1
        a1  == IF ~state.active /\ on >= th.on_count THEN TRUE ELSE state.active
        a2  == IF a1 /\ off >= th.off_count THEN FALSE ELSE a1
    IN  [active |-> a2, on_count |-> on, off_count |-> off]

\* AppConfig.tags_d_smoother: the default thresholds of the blocking channel
DefaultBlockingThresholds ==
    [tag \in TagsD |->
        IF tag = "blocking" THEN [on_count |-> 6, off_count |-> 3]
        ELSE [on_count |-> 3, off_count |-> 3]]

\* The number of update calls the smoother of the model receives.
UpdateLimit ==
    IF thresholds = DefaultBlockingThresholds THEN MaxDefaultUpdates
    ELSE MaxUpdates

\* Mutant of BlockingTagUpdate: deactivation needs one frame more.
BlockingTagUpdateLateOff(state, present, th) ==
    LET on  == IF present THEN state.on_count + 1 ELSE 0
        off == IF present THEN 0 ELSE state.off_count + 1
        a1  == IF ~state.active /\ on >= th.on_count THEN TRUE ELSE state.active
        a2  == IF a1 /\ off > th.off_count THEN FALSE ELSE a1
    IN  [active |-> a2, on_count |-> on, off_count |-> off]

\* Mutant of BlockingTagUpdate: the counter of the other direction is kept.
BlockingTagUpdateKeepsCounters(state, present, th) ==
    LET on  == IF present THEN state.on_count + 1 ELSE state.on_count
        off == IF present THEN state.off_count ELSE state.off_count + 1
        a1  == IF ~state.active /\ on >= th.on_count THEN TRUE ELSE state.active
        a2  == IF a1 /\ off >= th.off_count THEN FALSE ELSE a1
    IN  [active |-> a2, on_count |-> on, off_count |-> off]

\* BlockingSmoother.update, the body of the loop over the tags.
BlockingTagUpdate(state, present, th) ==
    LET on  == IF present THEN state.on_count + 1 ELSE 0
        off == IF present THEN 0 ELSE state.off_count + 1
        a1  == IF ~state.active /\ on >= th.on_count THEN TRUE ELSE state.active
        a2  == IF a1 /\ off >= th.off_count THEN FALSE ELSE a1
    IN  [active |-> a2, on_count |-> on, off_count |-> off]

\* Mutant of BlockingObserved: blocking is kept beside no_blocking.
BlockingObservedKeepsBoth(raw_tags) == raw_tags

\* BlockingSmoother.update: no_blocking wins when both tags are observed.
BlockingObserved(raw_tags) ==
    IF "blocking" \in raw_tags /\ "no_blocking" \in raw_tags
    THEN raw_tags \ {"blocking"}
    ELSE raw_tags

\* Mutant of BlockingForceOneOf: no fallback to the last active set.
BlockingForceOneOfNoFallback(tags, force, last) == tags

\* BlockingSmoother.update: the force_one_of fallback.
BlockingForceOneOf(tags, force, last) ==
    IF force # {} /\ (tags \cap force) = {} THEN last ELSE tags

ActiveTags(st) == {tag \in DOMAIN st : st[tag].active}

\* The run lengths after a frame in which the tags of fed reached hysteresis.
NextRun(fed) ==
    [tag \in DOMAIN seen_run |->
        IF tag \in fed
        THEN [present |-> seen_run[tag].present + 1, absent |-> 0]
        ELSE [present |-> 0, absent |-> seen_run[tag].absent + 1]]

\* SamplingCloseSmoother.update(raw) with raw.tags = raw_tags
SamplingCloseSmoother_update(raw_tags) ==
    /\ smoother_class = "SamplingCloseSmoother"
    /\ n_updates < MaxUpdates
    /\ LET observed == raw_tags
           st == [tag \in TagsC |->
                    SamplingCloseTagUpdate(tag_state[tag], tag \in observed, thresholds[tag])]
       IN  /\ tag_state' = st
           /\ tags_stable' = ActiveTags(st)
           /\ last_debug' = [tag \in TagsC |->
                                [raw |-> tag \in observed,
                                 on |-> st[tag].on_count, off |-> st[tag].off_count]]
           /\ seen_run' = NextRun(observed)
    /\ prev_nonempty' = IF tags_stable # {} THEN tags_stable ELSE prev_nonempty
    /\ was_active' = [tag \in DOMAIN tag_state |-> tag_state[tag].active]
    /\ n_updates' = n_updates + 1
    /\ UNCHANGED <<smoother_class, thresholds, force_one_of, last_active>>

\* BlockingSmoother.update(raw) with raw.tags = raw_tags
BlockingSmoother_update(raw_tags) ==
    /\ smoother_class = "BlockingSmoother"
    /\ n_updates < UpdateLimit
    /\ LET observed == BlockingObserved(raw_tags)
           st == [tag \in TagsD |->
                    BlockingTagUpdate(tag_state[tag], tag \in observed, thresholds[tag])]
           tags == BlockingForceOneOf(ActiveTags(st), force_one_of, last_active)
       IN  /\ tag_state' = st
           /\ last_active' = IF tags # {} THEN tags ELSE last_active
           /\ tags_stable' = tags
           /\ last_debug' = [tag \in TagsD |->
                                [raw |-> tag \in raw_tags,
                                 on |-> st[tag].on_count, off |-> st[tag].off_count]]
           /\ seen_run' = NextRun(observed)
    /\ prev_nonempty' = IF tags_stable # {} THEN tags_stable ELSE prev_nonempty
    /\ was_active' = [tag \in DOMAIN tag_state |-> tag_state[tag].active]
    /\ n_updates' = n_updates + 1
    /\ UNCHANGED <<smoother_class, thresholds, force_one_of>>

(***************************************************************************)
(* StateEngine5.                                                           *)
(***************************************************************************)
VARIABLES
    debounce_k,       \* cfg.debounce_k
    stable,           \* self._stable
    pending,          \* self._pending
    pending_count,    \* self._pending_count
    result,           \* the StateResult returned by the last compute
    call_tags,        \* history: the tag set given to the last compute
    raw_run,          \* history: [state, n], the raw state of the last call and
                      \* the number of consecutive calls that classified to it
    n_calls,          \* number of compute calls so far
    prev_stable       \* history: self._stable before the last compute

engineVars == <<debounce_k, stable, pending, pending_count, result, call_tags,
                raw_run, n_calls, prev_stable>>

AllTags == TagsC \cup TagsD

\* Mutant of StateEngine5_classify: the open states are tested before close.
StateEngine5_classifyCloseLast(tags) ==
    LET t == IF "blocking" \in tags /\ "no_blocking" \in tags
             THEN tags \ {"blocking"} ELSE tags
    IN  IF "no_blocking" \in t
        THEN IF "sampling" \in t
             THEN <<"OPEN_DANGER", "no_blocking+sampling">>
             ELSE <<"OPEN_VIOLATION", "no_blocking+no_sampling">>
        ELSE IF "blocking" \in t
        THEN IF "sampling" \in t
             THEN <<"OPEN_NORMAL_SAMPLING", "blocking+sampling">>
             ELSE <<"OPEN_NORMAL_IDLE", "blocking+no_sampling">>
        ELSE IF "close" \in t THEN <<"CLOSE", "close">>
        ELSE <<"OPEN_UNKNOWN", "open_missing_blocking">>

\* StateEngine5._classify: <<state_raw, reason>>
StateEngine5_classify(tags) ==
    LET t == IF "blocking" \in tags /\ "no_blocking" \in tags
             THEN tags \ {"blocking"} ELSE tags
    IN  IF "close" \in t THEN <<"CLOSE", "close">>
        ELSE IF "no_blocking" \in t
        THEN IF "sampling" \in t
             THEN <<"OPEN_DANGER", "no_blocking+sampling">>
             ELSE <<"OPEN_VIOLATION", "no_blocking+no_sampling">>
        ELSE IF "blocking" \in t
        THEN IF "sampling" \in t
             THEN <<"OPEN_NORMAL_SAMPLING", "blocking+sampling">>
             ELSE <<"OPEN_NORMAL_IDLE", "blocking+no_sampling">>
        ELSE <<"OPEN_UNKNOWN", "open_missing_blocking">>

\* Mutant of StateEngine5_debounce: a call with the stable state does not
\* clear the pending candidate, so the run need not be consecutive.
StateEngine5_debounceVote(k, st, pend, cnt, state_raw) ==
    IF k <= 1 THEN [stable |-> state_raw, pending |-> pend, pending_count |-> cnt]
    ELSE IF st = None THEN [stable |-> state_raw, pending |-> pend, pending_count |-> cnt]
    ELSE IF state_raw = st THEN [stable |-> st, pending |-> pend, pending_count |-> cnt]
    ELSE IF state_raw # pend THEN [stable |-> st, pending |-> state_raw, pending_count |-> 1]
    ELSE IF cnt + 1 >= k THEN [stable |-> state_raw, pending |-> None, pending_count |-> 0]
    ELSE [stable |-> st, pending |-> pend, pending_count |-> cnt + 1]

\* Mutant of StateEngine5_debounce: the candidate needs one call more.
StateEngine5_debounceSlow(k, st, pend, cnt, state_raw) ==
    IF k <= 1 THEN [stable |-> state_raw, pending |-> pend, pending_count |-> cnt]
    ELSE IF st = None THEN [stable |-> state_raw, pending |-> pend, pending_count |-> cnt]
    ELSE IF state_raw = st THEN [stable |-> st, pending |-> None, pending_count |-> 0]
    ELSE IF state_raw # pend THEN [stable |-> st, pending |-> state_raw, pending_count |-> 1]
    ELSE IF cnt + 1 > k THEN [stable |-> state_raw, pending |-> None, pending_count |-> 0]
    ELSE [stable |-> st, pending |-> pend, pending_count |-> cnt + 1]

\* StateEngine5._debounce: the new _stable (the value returned), _pending and
\* _pending_count
StateEngine5_debounce(k, st, pend, cnt, state_raw) ==
    IF k <= 1 THEN [stable |-> state_raw, pending |-> pend, pending_count |-> cnt]
    ELSE IF st = None THEN [stable |-> state_raw, pending |-> pend, pending_count |-> cnt]
    ELSE IF state_raw = st THEN [stable |-> st, pending |-> None, pending_count |-> 0]
    ELSE IF state_raw # pend THEN [stable |-> st, pending |-> state_raw, pending_count |-> 1]
    ELSE IF cnt + 1 >= k THEN [stable |-> state_raw, pending |-> None, pending_count |-> 0]
    ELSE [stable |-> st, pending |-> pend, pending_count |-> cnt + 1]

\* The state after StateEngine5.__init__ with debounce_k in ks.
EngineInit(ks) ==
    /\ debounce_k \in ks
    /\ stable = None
    /\ pending = None
    /\ pending_count = 0
    /\ result = [state_raw |-> None, state_5class |-> None, reason |-> None]
    /\ call_tags = {}
    /\ raw_run = [state |-> None, n |-> 0]
    /\ n_calls = 0
    /\ prev_stable = None

\* StateEngine5.compute(tags)
StateEngine5_compute(tags) ==
    /\ n_calls < MaxCalls
    /\ LET c == StateEngine5_classify(tags)
           d == StateEngine5_debounce(debounce_k, stable, pending, pending_count, c[1])
       IN  /\ stable' = d.stable
           /\ pending' = d.pending
           /\ pending_count' = d.pending_count
           /\ result' = [state_raw |-> c[1], state_5class |-> d.stable, reason |-> c[2]]
           /\ raw_run' = [state |-> c[1],
                          n |-> IF raw_run.state = c[1] THEN raw_run.n + 1 ELSE 1]
    /\ call_tags' = tags
    /\ n_calls' = n_calls + 1
    /\ prev_stable' = stable
    /\ UNCHANGED debounce_k

(***************************************************************************)
(* PeopleSmoother.  The two acceptance probabilities are kept as per cent:  *)
(* count/total >= 0.60 is 100 * count >= 60 * total, which is also what the *)
(* floating-point comparison of the source yields for every window of up    *)
(* to 25 entries.                                                          *)
(***************************************************************************)
VARIABLES
    people_cfg,         \* the PeopleSmootherConfig
    last_seen,          \* self._last_seen : track id -> frame index
    hits,               \* self._hits : track id -> number of frames seen
    history,            \* self._history (deque, maxlen = window_size)
    vote_window,        \* self._vote_window (deque, maxlen = 25)
    frame_index,        \* self._frame_index
    stable_count,       \* self._stable_count
    candidate_count,    \* self._candidate_count
    out_counter,        \* self._out_counter
    back_counter,       \* self._back_counter
    last_active_ids,    \* self._last_active_ids
    people_stable,      \* the PeopleStable returned by the last update
    prev_stable_count,  \* history: self._stable_count before the last update
    candidate_run,      \* history: [target, other], the numbers of consecutive
                        \* updates whose candidate was / was not expected_people
    seen_nonzero,       \* history: an update before the last one returned a
                        \* count other than 0
    count_log,          \* history: the counted total of every update so far
    updates_left        \* number of update calls the smoother still receives

peopleVars == <<people_cfg, last_seen, hits, history, vote_window, frame_index,
                stable_count, candidate_count, out_counter, back_counter,
                last_active_ids, people_stable, prev_stable_count,
                candidate_run, seen_nonzero, count_log, updates_left>>

\* PeopleSmootherConfig defaults
DefaultWindowSize == 10
DefaultExpectedPeople == 2

\* the constants of _apply_visual_vote
vote_window_n == 25
p_accept_2 == 60
p_accept_other == 80
hold_out == 20
hold_back == 8

TrackIds == 1..MaxTracks

\* The PeopleSmootherConfig values the model draws from.
PeopleConfigs ==
    [window_size : {DefaultWindowSize},
     max_id_age : 1..MaxIdAge,
     active_id_age : 0..MaxActiveIdAge,
     expected_people : {DefaultExpectedPeople},
     min_track_hits : 1..MaxTrackHits]

\* deque(maxlen = n).append(x)
DequeAppend(q, x, n) ==
    IF Len(q) >= n THEN Append(SubSeq(q, 2, Len(q)), x) ELSE Append(q, x)

\* Counter(window)[v]
CountOf(window, v) == Cardinality({i \in 1..Len(window) : window[i] = v})

\* Mutant of MostFrequentOther: a tie goes to the smaller count.
MostFrequentOtherSmallest(window, expected) ==
    LET non2 == {window[i] : i \in 1..Len(window)} \ {expected}
    IN  CHOOSE k \in non2 :
            \A j \in non2 :
                \/ CountOf(window, j) < CountOf(window, k)
                \/ (CountOf(window, j) = CountOf(window, k) /\ j >= k)

\* max(non2.items(), key = lambda kv: (kv[1], kv[0]))[0]
MostFrequentOther(window, expected) ==
    LET non2 == {window[i] : i \in 1..Len(window)} \ {expected}
    IN  CHOOSE k \in non2 :
            \A j \in non2 :
                \/ CountOf(window, j) < CountOf(window, k)
                \/ (CountOf(window, j) = CountOf(window, k) /\ j <= k)

\* _apply_visual_vote up to "self._candidate_count = candidate", for the
\* window that already holds obs_count.
VoteCandidate(window, stable_now, obs_count, expected) ==
    LET total   == Len(window)
        count_2 == CountOf(window, expected)
        default == IF stable_now # 0 THEN stable_now ELSE obs_count
    IN  IF 100 * count_2 >= p_accept_2 * total THEN expected
        ELSE IF 100 * (total - count_2) >= p_accept_other * total
        THEN IF {window[i] : i \in 1..Len(window)} \ {expected} # {}
             THEN MostFrequentOther(window, expected)
             ELSE default
        ELSE default

\* _apply_visual_vote after the candidate is set: the new _stable_count,
\* _out_counter and _back_counter.
SwitchHold(stable_now, out_now, back_now, candidate, expected) ==
    IF stable_now = 0
    THEN [stable |-> candidate, out |-> out_now, back |-> back_now]
    ELSE IF candidate = stable_now
    THEN [stable |-> stable_now, out |-> 0, back |-> 0]
    ELSE IF stable_now = expected /\ candidate # expected
    THEN IF out_now + 1 >= hold_out
         THEN [stable |-> candidate, out |-> 0, back |-> 0]
         ELSE [stable |-> stable_now, out |-> out_now + 1, back |-> 0]
    ELSE IF stable_now # expected /\ candidate = expected
    THEN IF back_now + 1 >= hold_back
         THEN [stable |-> candidate, out |-> 0, back |-> 0]
         ELSE [stable |-> stable_now, out |-> 0, back |-> back_now + 1]
    ELSE [stable |-> candidate, out |-> 0, back |-> 0]

\* A PeopleSmoother just constructed with configuration c (with the history
\* kept about it).
PeopleNew(c) ==
    [people_cfg |-> c,
     last_seen |-> << >>,
     hits |-> << >>,
     history |-> << >>,
     vote_window |-> << >>,
     frame_index |-> 0,
     stable_count |-> 0,
     candidate_count |-> None,
     out_counter |-> 0,
     back_counter |-> 0,
     last_active_ids |-> {},
     people_stable |-> [people_count_stable |-> 0, people_ok |-> FALSE],
     prev_stable_count |-> 0,
     candidate_run |-> [target |-> 0, other |-> 0],
     seen_nonzero |-> FALSE,
     count_log |-> << >>]

\* update, lines 37-41 and 45-47: the ids that stay tracked
TrackedIds(seen, now, c) ==
    {tid \in DOMAIN seen : now - seen[tid] <= c.max_id_age}

\* Mutant of CountedIds: the hits of a track are not looked at.
CountedIdsIgnoresHits(kept, seen, hit, now, c) ==
    {tid \in kept : now - seen[tid] <= c.active_id_age}

\* update, lines 42-44: the ids that count for the frame
CountedIds(kept, seen, hit, now, c) ==
    {tid \in kept :
        /\ now - seen[tid] <= c.active_id_age
        /\ hit[tid] >= c.min_track_hits}

\* PeopleSmoother.update(raw) with raw.active_ids = active, applied to the
\* smoother self: the smoother after the call.
PeopleUpdate(self, active) ==
    LET c       == self.people_cfg
        now     == self.frame_index + 1
        seen    == [tid \in (DOMAIN self.last_seen) \cup active |->
                       IF tid \in active THEN now ELSE self.last_seen[tid]]
        hit     == [tid \in (DOMAIN self.last_seen) \cup active |->
                       IF tid \in active
                       THEN (IF tid \in DOMAIN self.hits THEN self.hits[tid] ELSE 0) + 1
                       ELSE self.hits[tid]]
        kept    == TrackedIds(seen, now, c)
        counted == CountedIds(kept, seen, hit, now, c)
        count_raw == Cardinality(counted)
        window  == DequeAppend(self.vote_window, count_raw, vote_window_n)
        cand    == VoteCandidate(window, self.stable_count, count_raw,
                                 c.expected_people)
        sw      == SwitchHold(self.stable_count, self.out_counter,
                              self.back_counter, cand, c.expected_people)
    IN  [people_cfg |-> c,
         last_seen |-> [tid \in kept |-> seen[tid]],
         hits |-> [tid \in kept |-> hit[tid]],
         history |-> DequeAppend(self.history, count_raw, c.window_size),
         vote_window |-> window,
         frame_index |-> now,
         stable_count |-> sw.stable,
         candidate_count |-> cand,
         out_counter |-> sw.out,
         back_counter |-> sw.back,
         last_active_ids |-> counted,
         people_stable |-> [people_count_stable |-> sw.stable,
                            people_ok |-> sw.stable = c.expected_people],
         prev_stable_count |-> self.stable_count,
         candidate_run |->
             IF cand = c.expected_people
             THEN [target |-> self.candidate_run.target + 1, other |-> 0]
             ELSE [target |-> 0, other |-> self.candidate_run.other + 1],
         seen_nonzero |-> (self.seen_nonzero
                             \/ (self.frame_index > 0 /\ self.stable_count # 0)),
         count_log |-> Append(self.count_log, count_raw)]

\* The smoother self after the update calls with the active ids of inputs,
\* from inputs[idx] on.
RECURSIVE PeopleAfter(_, _, _)
PeopleAfter(self, inputs, idx) ==
    IF idx > Len(inputs) THEN self
    ELSE PeopleAfter(PeopleUpdate(self, inputs[idx]), inputs, idx + 1)

\* The variables hold the smoother self.
PeopleIs(self) ==
    /\ people_cfg = self.people_cfg
    /\ last_seen = self.last_seen
    /\ hits = self.hits
    /\ history = self.history
    /\ vote_window = self.vote_window
    /\ frame_index = self.frame_index
    /\ stable_count = self.stable_count
    /\ candidate_count = self.candidate_count
    /\ out_counter = self.out_counter
    /\ back_counter = self.back_counter
    /\ last_active_ids = self.last_active_ids
    /\ people_stable = self.people_stable
    /\ prev_stable_count = self.prev_stable_count
    /\ candidate_run = self.candidate_run
    /\ seen_nonzero = self.seen_nonzero
    /\ count_log = self.count_log

\* The state after PeopleSmoother.__init__ with a configuration in cfgs,
\* for a smoother that receives n update calls.
PeopleInit(cfgs, n) ==
    /\ \E c \in cfgs : PeopleIs(PeopleNew(c))
    /\ updates_left = n

\* The state of a smoother with a configuration in cfgs that has received
\* the update calls of one of the input sequences in prefixes and receives
\* n more.
PeopleInitAfter(cfgs, prefixes, n) ==
    /\ \E c \in cfgs, inputs \in prefixes :
          PeopleIs(PeopleAfter(PeopleNew(c), inputs, 1))
    /\ updates_left = n

\* The smoother the variables hold.
PeopleSelf ==
    [people_cfg |-> people_cfg, last_seen |-> last_seen, hits |-> hits,
     history |-> history, vote_window |-> vote_window,
     frame_index |-> frame_index, stable_count |-> stable_count,
     candidate_count |-> candidate_count, out_counter |-> out_counter,
     back_counter |-> back_counter, last_active_ids |-> last_active_ids,
     people_stable |-> people_stable, prev_stable_count |-> prev_stable_count,
     candidate_run |-> candidate_run, seen_nonzero |-> seen_nonzero,
     count_log |-> count_log]

\* PeopleSmoother.update(raw) with raw.active_ids = active
PeopleSmoother_update(active) ==
    /\ updates_left > 0
    /\ updates_left' = updates_left - 1
    /\ LET self == PeopleUpdate(PeopleSelf, active)
       IN  /\ people_cfg' = self.people_cfg
           /\ last_seen' = self.last_seen
           /\ hits' = self.hits
           /\ history' = self.history
           /\ vote_window' = self.vote_window
           /\ frame_index' = self.frame_index
           /\ stable_count' = self.stable_count
           /\ candidate_count' = self.candidate_count
           /\ out_counter' = self.out_counter
           /\ back_counter' = self.back_counter
           /\ last_active_ids' = self.last_active_ids
           /\ people_stable' = self.people_stable
           /\ prev_stable_count' = self.prev_stable_count
           /\ candidate_run' = self.candidate_run
           /\ seen_nonzero' = self.seen_nonzero
           /\ count_log' = self.count_log

(***************************************************************************)
(* Offline session builder: _build_sessions of src/report/builder.py.      *)
(* frames is the part of the input list the loop has reached: every step   *)
(* of the loop takes the next frame of the list and handles the interval   *)
(* from the frame before it.                                               *)
(***************************************************************************)
VARIABLES
    cfg,                    \* the ReportConfig
    frames,                 \* the _FrameSignal list, up to the frame reached
    candidate_type,
    candidate_start_ts,
    candidate_start_frame,
    candidate_accum,
    candidate_gap,
    current_session,
    session_gap,
    sessions,
    pc,                     \* "loop": in the for loop; "done": returned
    before,                 \* history: the locals before the last iteration
    closed_at_end,          \* history: the last session was appended after
                            \* the loop (it was open at the end of the input)
    report,                 \* the Report returned by build_report
    crew                    \* what _build_crew_for_session returns for each
                            \* session of sessions

builderVars == <<cfg, frames, candidate_type, candidate_start_ts,
                 candidate_start_frame, candidate_accum, candidate_gap,
                 current_session, session_gap, sessions, pc, before,
                 closed_at_end, report, crew>>

\* No Report has been returned.
NoReport == [overall_result |-> None]

\* current_session = None
NoSession == [type |-> None]

\* The fields of a frame that the detectors decide.
Signals ==
    [people_count : 1..MaxPeopleCount, open_state : BOOLEAN, sampling_present : BOOLEAN,
     blocking_state : {"blocking", "no_blocking", "unknown"}]

\* _FrameSignal
FrameSignal(idx, ts, sig) ==
    [frame_idx |-> idx, ts_s |-> ts, people_count |-> sig.people_count,
     open_state |-> sig.open_state, sampling_present |-> sig.sampling_present,
     blocking_state |-> sig.blocking_state]

\* _session_type
SessionType(frame) ==
    IF ~frame.open_state \/ ~frame.sampling_present THEN None
    ELSE IF frame.blocking_state = "blocking" THEN "BLOCKED_SAMPLING"
    ELSE IF frame.blocking_state = "no_blocking" THEN "UNBLOCKED_SAMPLING"
    ELSE None

\* max(a, b)
Max(a, b) == IF a >= b THEN a ELSE b

\* Mutant of EffectiveGapEnd: sampling_end_s is ignored.
EffectiveGapEndIgnoresSamplingEnd(c) == c.gap_allow_sampling_s

\* effective_gap_end
EffectiveGapEnd(c) == Max(c.sampling_end_s, c.gap_allow_sampling_s)

\* The local variables of _build_sessions as one record.
Locals ==
    [candidate_type |-> candidate_type,
     candidate_start_ts |-> candidate_start_ts,
     candidate_start_frame |-> candidate_start_frame,
     candidate_accum |-> candidate_accum,
     candidate_gap |-> candidate_gap,
     current_session |-> current_session,
     session_gap |-> session_gap,
     sessions |-> sessions]

\* candidate_type = None; candidate_start_ts = None; ... candidate_gap = 0.0
ResetCandidate(L) ==
    [L EXCEPT !.candidate_type = None, !.candidate_start_ts = None,
              !.candidate_start_frame = None, !.candidate_accum = 0,
              !.candidate_gap = 0]

\* Mutant of CandidateGap: a long gap does not discard the candidate.
CandidateGapNeverDiscards(L, dt) ==
    IF L.candidate_type # None
    THEN [L EXCEPT !.candidate_gap = L.candidate_gap + dt]
    ELSE L

\* No session is open and the interval is not a sampling interval.
CandidateGap(L, dt) ==
    IF L.candidate_type # None
    THEN LET gap == L.candidate_gap + dt
         IN  IF gap > cfg.gap_allow_sampling_s
             THEN ResetCandidate(L)
             ELSE [L EXCEPT !.candidate_gap = gap]
    ELSE L

\* No session is open and the interval is a sampling interval of some type:
\* start or continue the candidate and confirm it once it has accumulated
\* sampling_start_s.
CandidateAccumulate(L, interval_type, frame, start, end) ==
    LET L1 == IF interval_type # L.candidate_type
              THEN [L EXCEPT !.candidate_type = interval_type,
                             !.candidate_start_ts = start,
                             !.candidate_start_frame = frame.frame_idx,
                             !.candidate_accum = 0,
                             !.candidate_gap = 0]
              ELSE L
        L2 == [L1 EXCEPT !.candidate_accum = @ + (end - start),
                         !.candidate_gap = 0]
    IN  IF L2.candidate_accum >= cfg.sampling_start_s
        THEN [ResetCandidate(L2) EXCEPT
                 !.current_session =
                     [type |-> L2.candidate_type,
                      start_ts |-> L2.candidate_start_ts,
                      start_frame |-> L2.candidate_start_frame,
                      end_ts |-> end,
                      end_frame |-> frame.frame_idx],
                 !.session_gap = 0]
        ELSE L2

\* Session(...) of a session that ends at end_ts
Session(id, cur, end_ts) ==
    [session_id |-> id, session_type |-> cur.type,
     start_ts_s |-> cur.start_ts, end_ts_s |-> end_ts,
     duration_s |-> Max(0, end_ts - cur.start_ts),
     start_frame_idx |-> cur.start_frame, end_frame_idx |-> cur.end_frame]

\* Mutant of CloseSession: the end of the session is not moved back.
CloseSessionNotBackdated(L, gap, interval_type, frame, start, end) ==
    LET excess == gap - EffectiveGapEnd(cfg)
        e      == end
        end_ts == IF e < L.current_session.start_ts
                  THEN L.current_session.start_ts ELSE e
        cur    == [L.current_session EXCEPT !.end_ts = end_ts,
                                            !.end_frame = frame.frame_idx]
        L1     == [ResetCandidate(L) EXCEPT
                      !.sessions = Append(L.sessions,
                                          Session(Len(L.sessions) + 1, cur, end_ts)),
                      !.current_session = NoSession,
                      !.session_gap = 0]
    IN  IF interval_type # None
        THEN [L1 EXCEPT !.candidate_type = interval_type,
                        !.candidate_start_ts = start,
                        !.candidate_start_frame = frame.frame_idx,
                        !.candidate_accum = end - start,
                        !.candidate_gap = 0]
        ELSE L1

\* The gap has reached effective_gap_end: close the session with its end
\* moved back by the excess, and start a candidate for the closing interval.
CloseSession(L, gap, interval_type, frame, start, end) ==
    LET excess == gap - EffectiveGapEnd(cfg)
        e      == end - excess
        end_ts == IF e < L.current_session.start_ts
                  THEN L.current_session.start_ts ELSE e
        cur    == [L.current_session EXCEPT !.end_ts = end_ts,
                                            !.end_frame = frame.frame_idx]
        L1     == [ResetCandidate(L) EXCEPT
                      !.sessions = Append(L.sessions,
                                          Session(Len(L.sessions) + 1, cur, end_ts)),
                      !.current_session = NoSession,
                      !.session_gap = 0]
    IN  IF interval_type # None
        THEN [L1 EXCEPT !.candidate_type = interval_type,
                        !.candidate_start_ts = start,
                        !.candidate_start_frame = frame.frame_idx,
                        !.candidate_accum = end - start,
                        !.candidate_gap = 0]
        ELSE L1

\* Mutant of SessionInterval: a gap equal to gap_allow_sampling_s is no
\* longer tolerated.
SessionIntervalStrictGap(L, interval_type, frame, start, end) ==
    IF interval_type = L.current_session.type
    THEN [L EXCEPT !.session_gap = 0,
                   !.current_session.end_ts = end,
                   !.current_session.end_frame = frame.frame_idx]
    ELSE LET gap == L.session_gap + (end - start)
         IN  IF gap < cfg.gap_allow_sampling_s
             THEN [L EXCEPT !.session_gap = gap,
                            !.current_session.end_ts = end,
                            !.current_session.end_frame = frame.frame_idx]
             ELSE IF gap >= EffectiveGapEnd(cfg)
             THEN CloseSession(L, gap, interval_type, frame, start, end)
             ELSE [L EXCEPT !.session_gap = gap]

\* A session is open: extend it, let the gap grow, or close it.
SessionInterval(L, interval_type, frame, start, end) ==
    IF interval_type = L.current_session.type
    THEN [L EXCEPT !.session_gap = 0,
                   !.current_session.end_ts = end,
                   !.current_session.end_frame = frame.frame_idx]
    ELSE LET gap == L.session_gap + (end - start)
         IN  IF gap <= cfg.gap_allow_sampling_s
             THEN [L EXCEPT !.session_gap = gap,
                            !.current_session.end_ts = end,
                            !.current_session.end_frame = frame.frame_idx]
             ELSE IF gap >= EffectiveGapEnd(cfg)
             THEN CloseSession(L, gap, interval_type, frame, start, end)
             ELSE [L EXCEPT !.session_gap = gap]

\* The body of the for loop for the interval [start, end) that begins at frame.
LoopBody(L, frame, start, end) ==
    LET interval_type == SessionType(frame)
    IN  IF L.current_session = NoSession
        THEN IF interval_type = None
             THEN CandidateGap(L, end - start)
             ELSE CandidateAccumulate(L, interval_type, frame, start, end)
        ELSE SessionInterval(L, interval_type, frame, start, end)

\* The ReportConfig values the model draws from.
ReportConfigs ==
    [sampling_start_s : 1..MaxSamplingStart,
     sampling_end_s : 0..MaxSamplingEnd,
     gap_allow_sampling_s : 1..MaxGapAllow]

\* The state at the top of _build_sessions, for a list that is empty or
\* starts with a frame at time 0 whose signal is in sigs.
BuilderInit(cfgs, sigs) ==
    /\ cfg \in cfgs
    /\ frames \in {<< >>} \cup {<<FrameSignal(0, 0, sig)>> : sig \in sigs}
    /\ candidate_type = None
    /\ candidate_start_ts = None
    /\ candidate_start_frame = None
    /\ candidate_accum = 0
    /\ candidate_gap = 0
    /\ current_session = NoSession
    /\ session_gap = 0
    /\ sessions = << >>
    /\ pc = "loop"
    /\ before = Locals
    /\ closed_at_end = FALSE
    /\ report = NoReport
    /\ crew = << >>

\* One iteration of "for frame, start, end in _iter_intervals(frames)": the
\* list continues with a frame dt after the last one, carrying signal sig.
\* _iter_intervals skips an interval of length 0.
BuildSessions_iteration(dt, sig) ==
    /\ pc = "loop"
    /\ Len(frames) >= 1
    /\ Len(frames) < MaxFrames
    /\ LET frame == frames[Len(frames)]
           start == frame.ts_s
           end   == start + dt
           L     == IF end <= start THEN Locals
                    ELSE LoopBody(Locals, frame, start, end)
       IN  /\ frames' = Append(frames, FrameSignal(Len(frames), end, sig))
           /\ candidate_type' = L.candidate_type
           /\ candidate_start_ts' = L.candidate_start_ts
           /\ candidate_start_frame' = L.candidate_start_frame
           /\ candidate_accum' = L.candidate_accum
           /\ candidate_gap' = L.candidate_gap
           /\ current_session' = L.current_session
           /\ session_gap' = L.session_gap
           /\ sessions' = L.sessions
    /\ before' = Locals
    /\ UNCHANGED <<cfg, pc, closed_at_end, report, crew>>

\* The input list is exhausted: a session that is still open is appended
\* with the end it has, and the sessions are returned.
BuildSessions_return ==
    /\ pc = "loop"
    /\ IF current_session # NoSession
       THEN /\ sessions' = Append(sessions,
                                  Session(Len(sessions) + 1, current_session,
                                          current_session.end_ts))
            /\ closed_at_end' = TRUE
       ELSE UNCHANGED <<sessions, closed_at_end>>
    /\ pc' = "done"
    /\ UNCHANGED <<cfg, frames, candidate_type, candidate_start_ts,
                   candidate_start_frame, candidate_accum, candidate_gap,
                   current_session, session_gap, before, report, crew>>

(***************************************************************************)
(* build_report of src/report/builder.py, from the return of               *)
(* _build_sessions on: the alarms, the crew intervals and the people-count *)
(* change events of the Report.  An Optional[float] local is an empty or a *)
(* one-element sequence.                                                   *)
(***************************************************************************)
\* stable_s = 2.0, the stability window build_report passes to
\* _build_people_count_segments
stable_s == 2

\* expected_people = 2 of _build_crew_for_session
expected_people == 2

\* Alarm(alarm_id = 0, ...)
Alarm(type, start, end, trigger, sid) ==
    [alarm_id |-> 0, alarm_type |-> type, start_ts_s |-> start,
     end_ts_s |-> end, trigger_ts_s |-> trigger, session_id |-> sid]

\* _build_unblocked_alarm returned None
NoAlarm == [alarm_type |-> None]

\* Mutant of SessionAlarms: a session of exactly sampling_min_s is too short.
SessionAlarmsInclusive(ss, c) ==
    LET short(x) == c.enable_min_sampling_duration
                        /\ x.duration_s <= c.sampling_min_s
        sel == SelectSeq(ss, short)
    IN  [i \in 1..Len(sel) |->
            Alarm("SAMPLING_TOO_SHORT", sel[i].start_ts_s, sel[i].end_ts_s,
                  None, sel[i].session_id)]

\* "for session in sessions: if cfg.enable_min_sampling_duration and
\* session.duration_s < cfg.sampling_min_s: alarms.append(...)"
SessionAlarms(ss, c) ==
    LET short(x) == c.enable_min_sampling_duration
                        /\ x.duration_s < c.sampling_min_s
        sel == SelectSeq(ss, short)
    IN  [i \in 1..Len(sel) |->
            Alarm("SAMPLING_TOO_SHORT", sel[i].start_ts_s, sel[i].end_ts_s,
                  None, sel[i].session_id)]

\* cond of _build_unblocked_alarm
UnblockedCond(frame) ==
    /\ frame.open_state
    /\ frame.sampling_present
    /\ frame.blocking_state = "no_blocking"

\* Mutant of UnblockedAlarmLoop: the time of a tolerated gap is added to the
\* accumulator.
RECURSIVE UnblockedAlarmLoopCountsGap(_, _, _, _)
UnblockedAlarmLoopCountsGap(fs, c, idx, st) ==
    IF idx > Len(fs) - 1 THEN NoAlarm
    ELSE LET frame == fs[idx]
             start == frame.ts_s
             end   == fs[idx + 1].ts_s
             dt    == end - start
         IN  IF end <= start THEN UnblockedAlarmLoopCountsGap(fs, c, idx + 1, st)
             ELSE IF UnblockedCond(frame)
             THEN LET start_ts == IF st.start_ts = << >> THEN <<start>>
                                  ELSE st.start_ts
                      accum    == st.accum + dt
                  IN  IF accum >= c.unblocked_alarm_s
                      THEN LET trigger_ts == end - (accum - c.unblocked_alarm_s)
                           IN  Alarm("UNBLOCKED_INSERTION", start_ts[1],
                                     trigger_ts, trigger_ts, None)
                      ELSE UnblockedAlarmLoopCountsGap(fs, c, idx + 1,
                               [accum |-> accum, gap |-> 0, start_ts |-> start_ts])
             ELSE LET gap == st.gap + dt
                  IN  IF gap > c.gap_allow_unblocked_s
                      THEN UnblockedAlarmLoopCountsGap(fs, c, idx + 1,
                               [accum |-> 0, gap |-> 0, start_ts |-> << >>])
                      ELSE UnblockedAlarmLoopCountsGap(fs, c, idx + 1,
                               [accum |-> st.accum + dt, gap |-> gap,
                                start_ts |-> st.start_ts])

\* The for loop of _build_unblocked_alarm from the interval that begins at
\* fs[idx] on, with st the locals accum, gap and start_ts; the result is the
\* Alarm the function returns, or NoAlarm.
RECURSIVE UnblockedAlarmLoop(_, _, _, _)
UnblockedAlarmLoop(fs, c, idx, st) ==
    IF idx > Len(fs) - 1 THEN NoAlarm
    ELSE LET frame == fs[idx]
             start == frame.ts_s
             end   == fs[idx + 1].ts_s
             dt    == end - start
         IN  IF end <= start THEN UnblockedAlarmLoop(fs, c, idx + 1, st)
             ELSE IF UnblockedCond(frame)
             THEN LET start_ts == IF st.start_ts = << >> THEN <<start>>
                                  ELSE st.start_ts
                      accum    == st.accum + dt
                  IN  IF accum >= c.unblocked_alarm_s
                      THEN LET trigger_ts == end - (accum - c.unblocked_alarm_s)
                           IN  Alarm("UNBLOCKED_INSERTION", start_ts[1],
                                     trigger_ts, trigger_ts, None)
                      ELSE UnblockedAlarmLoop(fs, c, idx + 1,
                               [accum |-> accum, gap |-> 0, start_ts |-> start_ts])
             ELSE LET gap == st.gap + dt
                  IN  IF gap > c.gap_allow_unblocked_s
                      THEN UnblockedAlarmLoop(fs, c, idx + 1,
                               [accum |-> 0, gap |-> 0, start_ts |-> << >>])
                      ELSE UnblockedAlarmLoop(fs, c, idx + 1,
                               [st EXCEPT !.gap = gap])

\* _build_unblocked_alarm
BuildUnblockedAlarm(fs, c) ==
    UnblockedAlarmLoop(fs, c, 1, [accum |-> 0, gap |-> 0, start_ts |-> << >>])

\* Mutant of AssignAlarmIds: the ids are given from the end of the list.
AssignAlarmIdsReversed(alarms) ==
    [i \in 1..Len(alarms) |-> [alarms[i] EXCEPT !.alarm_id = Len(alarms) + 1 - i]]

\* "for idx, alarm in enumerate(alarms, start=1): alarm.alarm_id = idx"
AssignAlarmIds(alarms) ==
    [i \in 1..Len(alarms) |-> [alarms[i] EXCEPT !.alarm_id = i]]

\* _in_session
InSession(ts, ss) ==
    \E i \in 1..Len(ss) : ss[i].start_ts_s <= ts /\ ts <= ss[i].end_ts_s

\* pending_count = None; pending_start = None; pending_duration = 0.0
ResetPending(st) ==
    [st EXCEPT !.pending_count = << >>, !.pending_start = << >>,
               !.pending_duration = 0]

\* Mutant of PeopleCountPending: an interval of another count does not
\* restart the pending change.
PeopleCountPendingKept(st, count, start) ==
    IF st.pending_count = << >>
    THEN [st EXCEPT !.pending_count = <<count>>, !.pending_start = <<start>>,
                    !.pending_duration = 0]
    ELSE [st EXCEPT !.pending_count = <<count>>]

\* "if pending_count != count: pending_count = count; pending_start = start;
\* pending_duration = 0.0"
PeopleCountPending(st, count, start) ==
    IF st.pending_count # <<count>>
    THEN [st EXCEPT !.pending_count = <<count>>, !.pending_start = <<start>>,
                    !.pending_duration = 0]
    ELSE st

\* The first for loop of _build_people_count_segments from the interval
\* that begins at fs[idx] on, with st the locals current_count,
\* pending_count, pending_start, pending_duration, segment_start, segments
\* and events; the result is the locals after the loop.
RECURSIVE PeopleCountLoop(_, _, _, _, _)
PeopleCountLoop(fs, ss, win, idx, st) ==
    IF idx > Len(fs) - 1 THEN st
    ELSE LET frame == fs[idx]
             start == frame.ts_s
             end   == fs[idx + 1].ts_s
             dt    == end - start
             count == frame.people_count
         IN  IF end <= start THEN PeopleCountLoop(fs, ss, win, idx + 1, st)
             ELSE IF count = st.current_count
             THEN PeopleCountLoop(fs, ss, win, idx + 1, ResetPending(st))
             ELSE LET st1 == PeopleCountPending(st, count, start)
                      pending_before == st1.pending_duration
                      duration == pending_before + dt
                  IN  IF duration >= win /\ st1.pending_start # << >>
                      THEN LET confirm_offset == win - pending_before
                               confirmed_ts == start + Max(0, confirm_offset)
                               change_ts == st1.pending_start[1]
                               event ==
                                   [from_count |-> st1.current_count,
                                    to_count |-> st1.pending_count[1],
                                    change_ts_s |-> change_ts,
                                    confirmed_ts_s |-> confirmed_ts,
                                    context_in_session |-> InSession(change_ts, ss)]
                               segment ==
                                   [start_ts_s |-> st1.segment_start,
                                    end_ts_s |-> change_ts,
                                    people_count |-> st1.current_count]
                           IN  PeopleCountLoop(fs, ss, win, idx + 1,
                                   [ResetPending(st1) EXCEPT
                                       !.current_count = st1.pending_count[1],
                                       !.segment_start = change_ts,
                                       !.segments = Append(st1.segments, segment),
                                       !.events = Append(st1.events, event)])
                      ELSE PeopleCountLoop(fs, ss, win, idx + 1,
                               [st1 EXCEPT !.pending_duration = duration])

\* The locals of _build_people_count_segments before its first loop
PeopleCountLocals(fs) ==
    [current_count |-> fs[1].people_count, segment_start |-> fs[1].ts_s,
     pending_count |-> << >>, pending_start |-> << >>, pending_duration |-> 0,
     segments |-> << >>, events |-> << >>]

\* The people_count_change_events of _build_people_count_segments
PeopleCountChangeEvents(fs, ss, win) ==
    IF Len(fs) = 0 THEN << >>
    ELSE PeopleCountLoop(fs, ss, win, 1, PeopleCountLocals(fs)).events

\* sorted(boundaries) of a set of boundaries
RECURSIVE SortedBoundaries(_)
SortedBoundaries(cuts) ==
    IF cuts = {} THEN << >>
    ELSE LET lo == CHOOSE x \in cuts : \A y \in cuts : x <= y
         IN  <<lo>> \o SortedBoundaries(cuts \ {lo})

\* _in_session((start + end) / 2.0, sessions)
InSessionMid(start, end, ss) ==
    \E i \in 1..Len(ss) :
        2 * ss[i].start_ts_s <= start + end /\ start + end <= 2 * ss[i].end_ts_s

\* The body of "for segment in segments": the segment is cut at the
\* boundaries of the sessions that overlap it.
SplitSegment(segment, ss) ==
    LET overlapping ==
            {i \in 1..Len(ss) :
                ~(ss[i].end_ts_s <= segment.start_ts_s
                    \/ ss[i].start_ts_s >= segment.end_ts_s)}
        cuts == {segment.start_ts_s, segment.end_ts_s}
                    \cup {ss[i].start_ts_s : i \in overlapping}
                    \cup {ss[i].end_ts_s : i \in overlapping}
        boundaries ==
            SortedBoundaries({b \in cuts :
                segment.start_ts_s <= b /\ b <= segment.end_ts_s})
    IN  [k \in 1..(Len(boundaries) - 1) |->
            [start_ts_s |-> boundaries[k],
             end_ts_s |-> boundaries[k + 1],
             duration_s |-> Max(0, boundaries[k + 1] - boundaries[k]),
             people_count |-> segment.people_count,
             context_in_session |->
                 InSessionMid(boundaries[k], boundaries[k + 1], ss)]]

\* split_segments from the segment with index idx on
RECURSIVE SplitSegments(_, _, _)
SplitSegments(segs, ss, idx) ==
    IF idx > Len(segs) THEN << >>
    ELSE SplitSegment(segs[idx], ss) \o SplitSegments(segs, ss, idx + 1)

\* The people_count_segments of _build_people_count_segments
PeopleCountSegments(fs, ss, win) ==
    IF Len(fs) = 0 THEN << >>
    ELSE LET st == PeopleCountLoop(fs, ss, win, 1, PeopleCountLocals(fs))
             last_ts == fs[Len(fs)].ts_s
         IN  SplitSegments(Append(st.segments,
                                  [start_ts_s |-> st.segment_start,
                                   end_ts_s |-> last_ts,
                                   people_count |-> st.current_count]),
                           ss, 1)

\* The loop of _build_segments from fs[idx] on, with vals[i] the value of
\* the predicate for fs[i] and st the locals prev_value, start_ts,
\* start_frame and segments; the result is the list returned.
RECURSIVE BuildSegmentsLoop(_, _, _, _)
BuildSegmentsLoop(fs, vals, idx, st) ==
    IF idx > Len(fs)
    THEN Append(st.segments,
                [value |-> st.prev_value, start_ts_s |-> st.start_ts,
                 end_ts_s |-> fs[Len(fs)].ts_s,
                 start_frame_idx |-> st.start_frame,
                 end_frame_idx |-> fs[Len(fs)].frame_idx])
    ELSE IF vals[idx] # st.prev_value
    THEN BuildSegmentsLoop(fs, vals, idx + 1,
             [prev_value |-> vals[idx], start_ts |-> fs[idx].ts_s,
              start_frame |-> fs[idx].frame_idx,
              segments |->
                  Append(st.segments,
                         [value |-> st.prev_value, start_ts_s |-> st.start_ts,
                          end_ts_s |-> fs[idx].ts_s,
                          start_frame_idx |-> st.start_frame,
                          end_frame_idx |-> fs[idx].frame_idx])])
    ELSE BuildSegmentsLoop(fs, vals, idx + 1, st)

\* Mutant of BuildSegments: an empty list yields one empty segment.
BuildSegmentsNoGuard(fs, vals) ==
    IF fs = << >>
    THEN <<[value |-> FALSE, start_ts_s |-> 0, end_ts_s |-> 0,
            start_frame_idx |-> 0, end_frame_idx |-> 0]>>
    ELSE BuildSegmentsLoop(fs, vals, 2,
             [prev_value |-> vals[1], start_ts |-> fs[1].ts_s,
              start_frame |-> fs[1].frame_idx, segments |-> << >>])

\* _build_segments(frames, predicate)
BuildSegments(fs, vals) ==
    IF fs = << >> THEN << >>
    ELSE BuildSegmentsLoop(fs, vals, 2,
             [prev_value |-> vals[1], start_ts |-> fs[1].ts_s,
              start_frame |-> fs[1].frame_idx, segments |-> << >>])

\* build_report: presence_segments
PresenceSegments(fs) ==
    LET presence_raw ==
            BuildSegments(fs, [i \in 1..Len(fs) |-> fs[i].people_count >= 1])
    IN  [i \in 1..Len(presence_raw) |->
            [state |-> IF presence_raw[i].value THEN "present" ELSE "absent",
             start_ts_s |-> presence_raw[i].start_ts_s,
             end_ts_s |-> presence_raw[i].end_ts_s,
             duration_s |-> Max(0, presence_raw[i].end_ts_s
                                      - presence_raw[i].start_ts_s),
             start_frame_idx |-> presence_raw[i].start_frame_idx,
             end_frame_idx |-> presence_raw[i].end_frame_idx]]

\* build_report: observation_segments, the segments of an open port without
\* sampling
ObservationSegments(fs) ==
    LET observation_raw ==
            BuildSegments(fs, [i \in 1..Len(fs) |->
                                  fs[i].open_state /\ ~fs[i].sampling_present])
        kept == SelectSeq(observation_raw, LAMBDA seg : seg.value)
    IN  [i \in 1..Len(kept) |->
            [start_ts_s |-> kept[i].start_ts_s,
             end_ts_s |-> kept[i].end_ts_s,
             duration_s |-> Max(0, kept[i].end_ts_s - kept[i].start_ts_s),
             start_frame_idx |-> kept[i].start_frame_idx,
             end_frame_idx |-> kept[i].end_frame_idx]]

\* build_report: min_people (<< >> for None)
MinPeopleCount(fs) ==
    IF fs = << >> THEN << >>
    ELSE <<CHOOSE n \in {fs[i].people_count : i \in 1..Len(fs)} :
              \A i \in 1..Len(fs) : n <= fs[i].people_count>>

\* build_report: max_people (<< >> for None)
MaxPeopleCountOf(fs) ==
    IF fs = << >> THEN << >>
    ELSE <<CHOOSE n \in {fs[i].people_count : i \in 1..Len(fs)} :
              \A i \in 1..Len(fs) : n >= fs[i].people_count>>

\* build_report after _build_sessions has returned sessions.  crew_intervals
\* and session_crew_stats are created empty and returned as they are:
\* build_report never calls _build_crew_for_session.
BuildReport ==
    /\ pc = "done"
    /\ LET crew_intervals  == << >>
           session_alarms  == SessionAlarms(sessions, cfg)
           unblocked_alarm == BuildUnblockedAlarm(frames, cfg)
           alarms == IF unblocked_alarm # NoAlarm
                     THEN Append(session_alarms, unblocked_alarm)
                     ELSE session_alarms
       IN  report' =
              [overall_result |-> IF Len(alarms) > 0 THEN "FAIL" ELSE "PASS",
               presence_segments |-> PresenceSegments(frames),
               open_no_sampling_segments |-> ObservationSegments(frames),
               sessions |-> sessions,
               crew_intervals |-> crew_intervals,
               session_crew_stats |-> << >>,
               people_count_segments |->
                   PeopleCountSegments(frames, sessions, stable_s),
               alarms |-> AssignAlarmIds(alarms),
               people_count_change_events |->
                   PeopleCountChangeEvents(frames, sessions, stable_s),
               min_people_count |-> MinPeopleCount(frames),
               max_people_count |-> MaxPeopleCountOf(frames)]
    /\ pc' = "reported"
    /\ UNCHANGED <<cfg, frames, candidate_type, candidate_start_ts,
                   candidate_start_frame, candidate_accum, candidate_gap,
                   current_session, session_gap, sessions, before,
                   closed_at_end, crew>>

\* Mutant of IterSessionIntervals: the intervals are not cut to the session.
RECURSIVE IterSessionIntervalsUncut(_, _, _, _)
IterSessionIntervalsUncut(fs, start_ts, end_ts, idx) ==
    IF idx > Len(fs) - 1 THEN << >>
    ELSE LET start == fs[idx].ts_s
             end   == fs[idx + 1].ts_s
             rest  == IterSessionIntervalsUncut(fs, start_ts, end_ts, idx + 1)
         IN  IF end <= start THEN rest
             ELSE IF end <= start_ts THEN rest
             ELSE IF start >= end_ts THEN << >>
             ELSE <<[frame |-> fs[idx], start |-> start, end |-> end]>> \o rest

\* _iter_session_intervals from the interval that begins at fs[idx] on: the
\* (frame, overlap_start, overlap_end) it yields, in order.
RECURSIVE IterSessionIntervals(_, _, _, _)
IterSessionIntervals(fs, start_ts, end_ts, idx) ==
    IF idx > Len(fs) - 1 THEN << >>
    ELSE LET start == fs[idx].ts_s
             end   == fs[idx + 1].ts_s
             rest  == IterSessionIntervals(fs, start_ts, end_ts, idx + 1)
             overlap_start == Max(start, start_ts)
             overlap_end   == IF end <= end_ts THEN end ELSE end_ts
         IN  IF end <= start THEN rest
             ELSE IF end <= start_ts THEN rest
             ELSE IF start >= end_ts THEN << >>
             ELSE IF overlap_end <= overlap_start THEN rest
             ELSE <<[frame |-> fs[idx], start |-> overlap_start,
                     end |-> overlap_end]>> \o rest

\* CrewInterval(...)
CrewInterval(id, sid, type, start, end) ==
    [interval_id |-> id, session_id |-> sid,
     deviation_type |-> IF type = None THEN "UNKNOWN" ELSE type,
     start_ts_s |-> start, end_ts_s |-> end,
     duration_s |-> Max(0, end - start)]

\* deviation_active = False; deviation_type = None; ...
ResetDeviation(st) ==
    [st EXCEPT !.deviation_active = FALSE, !.deviation_type = None,
               !.deviation_start = << >>, !.deviation_end = << >>,
               !.deviation_duration = 0]

\* The for loop of _build_crew_for_session from items[idx] on, items being
\* what _iter_session_intervals yields and st the locals; the result is the
\* locals after the loop.
RECURSIVE CrewLoop(_, _, _, _, _)
CrewLoop(items, idx, session, c, st) ==
    IF idx > Len(items) THEN st
    ELSE LET start  == items[idx].start
             end    == items[idx].end
             dt     == end - start
             people == items[idx].frame.people_count
         IN  IF people = expected_people
             THEN LET st1 == [st EXCEPT !.ok_duration = @ + dt]
                  IN  IF st1.deviation_active
                      THEN LET st2 ==
                                 IF /\ st1.deviation_duration > c.people_grace_s
                                    /\ st1.deviation_start # << >>
                                    /\ st1.deviation_end # << >>
                                 THEN [st1 EXCEPT !.intervals =
                                          Append(@, CrewInterval(
                                              Len(st1.intervals) + 1,
                                              session.session_id,
                                              st1.deviation_type,
                                              st1.deviation_start[1],
                                              st1.deviation_end[1]))]
                                 ELSE st1
                           IN  CrewLoop(items, idx + 1, session, c,
                                        ResetDeviation(st2))
                      ELSE CrewLoop(items, idx + 1, session, c, st1)
             ELSE LET next_type == IF people < expected_people THEN "UNDER"
                                   ELSE "OVER"
                      st1 == IF people < expected_people
                             THEN [st EXCEPT !.under_duration = @ + dt]
                             ELSE [st EXCEPT !.over_duration = @ + dt]
                  IN  IF ~st1.deviation_active \/ st1.deviation_type # next_type
                      THEN LET end_or_start ==
                                 IF st1.deviation_end = << >>
                                    \/ st1.deviation_end[1] = 0
                                 THEN start ELSE st1.deviation_end[1]
                               st2 ==
                                 IF /\ st1.deviation_active
                                    /\ st1.deviation_duration > c.people_grace_s
                                    /\ st1.deviation_start # << >>
                                 THEN [st1 EXCEPT !.intervals =
                                          Append(@, CrewInterval(
                                              Len(st1.intervals) + 1,
                                              session.session_id,
                                              st1.deviation_type,
                                              st1.deviation_start[1],
                                              end_or_start))]
                                 ELSE st1
                           IN  CrewLoop(items, idx + 1, session, c,
                                   [st2 EXCEPT !.deviation_active = TRUE,
                                               !.deviation_type = next_type,
                                               !.deviation_start = <<start>>,
                                               !.deviation_end = <<end>>,
                                               !.deviation_duration = dt])
                      ELSE CrewLoop(items, idx + 1, session, c,
                               [st1 EXCEPT !.deviation_duration = @ + dt,
                                           !.deviation_end = <<end>>])

\* _build_crew_for_session: the intervals and the SessionCrewStats
BuildCrewForSession(fs, session, c) ==
    LET items == IterSessionIntervals(fs, session.start_ts_s,
                                      session.end_ts_s, 1)
        st == CrewLoop(items, 1, session, c,
                  [intervals |-> << >>, ok_duration |-> 0,
                   under_duration |-> 0, over_duration |-> 0,
                   deviation_active |-> FALSE, deviation_type |-> None,
                   deviation_start |-> << >>, deviation_end |-> << >>,
                   deviation_duration |-> 0])
        intervals ==
            IF /\ st.deviation_active
               /\ st.deviation_duration > c.people_grace_s
               /\ st.deviation_start # << >>
               /\ st.deviation_end # << >>
            THEN Append(st.intervals,
                        CrewInterval(Len(st.intervals) + 1, session.session_id,
                                     st.deviation_type, st.deviation_start[1],
                                     st.deviation_end[1]))
            ELSE st.intervals
    IN  [intervals |-> intervals,
         stats |-> [session_id |-> session.session_id,
                    expected_people |-> expected_people,
                    ok_duration_s |-> st.ok_duration,
                    under_duration_s |-> st.under_duration,
                    over_duration_s |-> st.over_duration,
                    violation_count |-> Len(intervals)]]

\* _build_crew_for_session(frames, session, cfg) for every session that
\* _build_sessions has returned.
BuildCrewForSessions ==
    /\ pc = "done"
    /\ crew' = [i \in 1..Len(sessions) |->
                    BuildCrewForSession(frames, sessions[i], cfg)]
    /\ pc' = "crew"
    /\ UNCHANGED <<cfg, frames, candidate_type, candidate_start_ts,
                   candidate_start_frame, candidate_accum, candidate_gap,
                   current_session, session_gap, sessions, before,
                   closed_at_end, report>>

(***************************************************************************)
(* FrameScheduler of src/runtime/frame_scheduler.py, driven as its callers *)
(* drive it: dt = scheduler.end(t0), then scheduler.next_index(index, dt). *)
(* A latency is a whole number of seconds, video_fps a whole number of     *)
(* frames per second and target_ratio a number of halves, so that          *)
(* raw_step_smooth is the fraction num / den of two integers.              *)
(***************************************************************************)
VARIABLES
    scheduler,      \* self: video_fps, warmup_frames, target_ratio,
                    \* max_allowed_step, min_step, count, dt_window
    sched_pc,       \* "begin": before end(t0); "measured": end has returned
    measured_dt,    \* the dt returned by the last end(t0)
    cur_index,      \* the caller's frame index
    total_frames,   \* the total_frames the caller passes; 0: None
    sched_out,      \* the tuple returned by the last next_index
    before_call     \* history: self before the last next_index

schedVars == <<scheduler, sched_pc, measured_dt, cur_index, total_frames,
               sched_out, before_call>>

\* next_index has not been called.
NoOutput == [step |-> None]

\* min(a, b)
Min(a, b) == IF a <= b THEN a ELSE b

\* FrameScheduler.__init__
FrameScheduler_init(args) ==
    [video_fps |-> args.video_fps,
     warmup_frames |-> Max(0, args.warmup_frames),
     target_ratio |-> args.target_ratio,
     max_allowed_step |-> Max(1, args.max_allowed_step),
     min_step |-> Max(1, args.min_step),
     count |-> 0,
     dt_window |-> << >>]

\* The constructor arguments the model draws from; target_ratio is 1/2 or 1.
SchedulerArgs ==
    [video_fps : 1..MaxFps, warmup_frames : 0..MaxWarmup,
     target_ratio : {1, 2}, max_allowed_step : 0..MaxAllowedStepArg,
     min_step : 0..MaxMinStepArg]

\* The state after FrameScheduler(**args) with args in argset, for a caller
\* that starts at frame 0 and passes a total_frames in totals.
SchedulerInit(argset, totals) ==
    /\ \E args \in argset : scheduler = FrameScheduler_init(args)
    /\ sched_pc = "begin"
    /\ measured_dt = 0
    /\ cur_index = 0
    /\ total_frames \in totals
    /\ sched_out = NoOutput
    /\ before_call = scheduler

\* FrameScheduler.end(t0), when dt seconds have passed since t0
FrameScheduler_end(dt) ==
    /\ sched_pc = "begin"
    /\ scheduler.count < MaxSchedCalls
    /\ LET appended == Append(scheduler.dt_window, dt)
       IN  scheduler' =
              [scheduler EXCEPT !.dt_window =
                  IF Len(appended) > 3 THEN Tail(appended) ELSE appended]
    /\ measured_dt' = dt
    /\ sched_pc' = "measured"
    /\ UNCHANGED <<cur_index, total_frames, sched_out, before_call>>

\* sum(self._dt_window)
RECURSIVE SumSeq(_)
SumSeq(q) == IF Len(q) = 0 THEN 0 ELSE Head(q) + SumSeq(Tail(q))

\* round(num / den) of Python 3: to the nearest integer, a half to the even
\* one
Round(num, den) ==
    LET q == num \div den
        r == num % den
    IN  IF 2 * r < den THEN q
        ELSE IF 2 * r > den THEN q + 1
        ELSE IF q % 2 = 0 THEN q ELSE q + 1

\* Mutant of ClampStep: the step is capped at max_allowed_step first and
\* raised to min_step afterwards.
ClampStepMinLast(self, unclamped) ==
    LET capped == IF unclamped > self.max_allowed_step THEN 1 ELSE 0
        step1  == Min(unclamped, self.max_allowed_step)
        step2  == Max(self.min_step, step1)
    IN  [step |-> Max(step2, 1), capped |-> capped]

\* "step = max(self.min_step, step); capped = 1 if step >
\* self.max_allowed_step else 0; step = min(step, self.max_allowed_step);
\* step = max(step, 1)"
ClampStep(self, unclamped) ==
    LET step1  == Max(self.min_step, unclamped)
        capped == IF step1 > self.max_allowed_step THEN 1 ELSE 0
        step2  == Min(step1, self.max_allowed_step)
    IN  [step |-> Max(step2, 1), capped |-> capped]

\* Mutant of NextIndex: the latency window is not cleared when the warm-up
\* ends.
NextIndexKeepsWindow(self, index, dt, total) ==
    LET warmup_active == self.count < self.warmup_frames
        window == self.dt_window
        num    == (IF Len(window) > 0 THEN SumSeq(window) ELSE dt)
                      * self.video_fps * self.target_ratio
        den    == (IF Len(window) > 0 THEN Len(window) ELSE 1) * 2
        clamp  == ClampStep(self, IF warmup_active THEN 1 ELSE Round(num, den))
        next   == index + clamp.step
    IN  [self |-> [self EXCEPT !.dt_window = window, !.count = @ + 1],
         out  |-> [next_index |-> IF total > 0 THEN Min(next, total - 1)
                                  ELSE next,
                   step |-> clamp.step,
                   raw_step |-> dt * self.video_fps,
                   raw_step_smooth |-> [num |-> num, den |-> den],
                   capped |-> clamp.capped]]

\* FrameScheduler.next_index(index, dt, total): self after the call and the
\* tuple it returns.
NextIndex(self, index, dt, total) ==
    LET warmup_active == self.count < self.warmup_frames
        window == IF self.count = self.warmup_frames THEN << >>
                  ELSE self.dt_window
        num    == (IF Len(window) > 0 THEN SumSeq(window) ELSE dt)
                      * self.video_fps * self.target_ratio
        den    == (IF Len(window) > 0 THEN Len(window) ELSE 1) * 2
        clamp  == ClampStep(self, IF warmup_active THEN 1 ELSE Round(num, den))
        next   == index + clamp.step
    IN  [self |-> [self EXCEPT !.dt_window = window, !.count = @ + 1],
         out  |-> [next_index |-> IF total > 0 THEN Min(next, total - 1)
                                  ELSE next,
                   step |-> clamp.step,
                   raw_step |-> dt * self.video_fps,
                   raw_step_smooth |-> [num |-> num, den |-> den],
                   capped |-> clamp.capped]]

\* scheduler.next_index(frame_index, dt, total_frames) with the dt that end
\* returned; the caller goes on at the returned index.
FrameScheduler_next_index ==
    /\ sched_pc = "measured"
    /\ LET call == NextIndex(scheduler, cur_index, measured_dt, total_frames)
       IN  /\ scheduler' = call.self
           /\ sched_out' = call.out
           /\ cur_index' = call.out.next_index
    /\ before_call' = scheduler
    /\ sched_pc' = "begin"
    /\ UNCHANGED <<measured_dt, total_frames>>

(***************************************************************************)
(* normalize_state of src/core/contracts/state.py, called directly and     *)
(* through RealtimeService.event_from_output.  A reason is the sequence of *)
(* the parts of the reason string; None and "" are both the empty          *)
(* sequence, which normalize_state does not tell apart.                    *)
(***************************************************************************)
VARIABLES
    norm_args,        \* the arguments of the last call ("None" caller: no call yet)
    norm_result       \* <<state_5class, reason>> of the last call

normVars == <<norm_args, norm_result>>

FIVE_STATES ==
    {"CLOSE", "OPEN_DANGER", "OPEN_VIOLATION", "OPEN_NORMAL_SAMPLING",
     "OPEN_NORMAL_IDLE"}

\* The state values a caller passes: the five classes, OPEN_UNKNOWN, the
\* placeholder N/A, the empty string, None and an unrecognised string.
StateValues == FIVE_STATES \cup {"OPEN_UNKNOWN", "N/A", "", None, "BOGUS"}

\* The reasons a caller passes: none, the reason of a detector dropout and
\* another reason.
Reasons == {<< >>, <<"open_missing_blocking">>, <<"no_blocking+sampling">>}

\* bool(x) is false of a string
Falsy(x) == x = None \/ x = ""

\* normalize_state(state_raw, state_5class, reason, ...): <<state, reason>>
normalize_state(state_raw, state_5class, reason) ==
    LET state == IF ~Falsy(state_5class) THEN state_5class
                 ELSE IF ~Falsy(state_raw) THEN state_raw ELSE ""
    IN  IF state \in {"N/A", ""} THEN <<"CLOSE", reason>>
        ELSE IF state \in FIVE_STATES THEN <<state, reason>>
        ELSE IF state = "OPEN_UNKNOWN" \/ state_raw = "OPEN_UNKNOWN"
        THEN IF reason # << >>
                /\ \E k \in 1..Len(reason) : reason[k] = "open_missing_blocking"
             THEN <<"OPEN_DANGER", Append(reason, "+missing_blocking")>>
             ELSE <<"OPEN_DANGER", Append(reason, "+unknown_fallback")>>
        ELSE <<"OPEN_DANGER", Append(reason, "+bad_state")>>

\* No call of normalize_state has been made.
NormalizeInit ==
    /\ norm_args = [caller |-> None, state_raw |-> None, state_5class |-> None,
                    reason |-> << >>]
    /\ norm_result = <<None, << >>>>

\* A call normalize_state(state_raw, state_5class, reason, ...)
normalize_state_call(state_raw, state_5class, reason) ==
    /\ norm_args' = [caller |-> "direct", state_raw |-> state_raw,
                     state_5class |-> state_5class, reason |-> reason]
    /\ norm_result' = normalize_state(state_raw, state_5class, reason)

\* RealtimeService.event_from_output(output) with output.state = state and
\* metrics["state_reason"] = reason: the state_5class of the event
RealtimeService_event_from_output(state, reason) ==
    LET r == normalize_state(state, state, reason)
    IN  /\ norm_args' = [caller |-> "event_from_output", state_raw |-> state,
                         state_5class |-> state, reason |-> reason]
        /\ norm_result' = <<IF Falsy(r[1]) THEN "-" ELSE r[1], r[2]>>

(***************************************************************************)
(* The auto-target feedback of VideoWorker.run (src/ui_qt/worker.py): the  *)
(* block that runs after every processed frame when auto_target is set.    *)
(* target_ratio is a number of twentieths (0.05), a real-time ratio a      *)
(* number of eightieths (0.9 is 72, 1.1 is 88), rt_smooth a number of      *)
(* halves, and the moving average the fraction num / den, so that every    *)
(* value of the model is exact.                                            *)
(***************************************************************************)
VARIABLES
    rt_smooth,        \* rt_smooth, in halves
    rt_last_set,      \* rt_last_wall and rt_last_video are not None
    rt_ratio_ema,     \* rt_ratio_ema: << >> for None, else <<[num, den]>>
    target_ratio,     \* scheduler.target_ratio, in twentieths
    target_before,    \* history: scheduler.target_ratio before the last frame
    adjusted,         \* history: the last frame ran the adjustment (lines 198-210)
    n_outputs         \* number of frames processed so far

feedbackVars == <<rt_smooth, rt_last_set, rt_ratio_ema, target_ratio,
                  target_before, adjusted, n_outputs>>

\* number of frames the inference loop processes
MaxOutputs == 4

target_min == 10
target_max == 40
target_step == 1
\* the thresholds 0.9 and 1.1 of the moving average, in eightieths
ratio_low == 72
ratio_high == 88

\* The real-time ratios d_video / d_wall of a frame: 0.8, 0.9, 1.0, 1.1, 1.2.
Ratios == {64, 72, 80, 88, 96}

\* The target_ratio values the scheduler is constructed with: the worker
\* passes the --target-ratio argument (any float) and FrameScheduler.__init__
\* only raises it to 0.01.
InitialTargets == {9, 10, 11, 20, 39, 40, 41}

\* rt_smooth * ratio + (1.0 - rt_smooth) * rt_ratio_ema
EmaMix(smooth, ratio, ema) ==
    [num |-> smooth * ratio * ema.den + (2 - smooth) * ema.num,
     den |-> 2 * ema.den]

\* lines 203-210: the new scheduler.target_ratio
AdjustTarget(target, ema) ==
    IF ema.num < ratio_low * ema.den THEN Min(target_max, target + target_step)
    ELSE IF ema.num > ratio_high * ema.den THEN Max(target_min, target - target_step)
    ELSE target

\* The worker before its first frame, with rt_smooth in smooths and the
\* scheduler constructed with a target_ratio in targets.
FeedbackInit(smooths, targets) ==
    /\ rt_smooth \in smooths
    /\ rt_last_set = FALSE
    /\ rt_ratio_ema = << >>
    /\ target_ratio \in targets
    /\ target_before = target_ratio
    /\ adjusted = FALSE
    /\ n_outputs = 0

\* The auto_target block for a frame whose output has a video time: measured
\* says that d_wall > 0.05 and d_video >= 0.0, ratio is d_video / d_wall.
AutoTarget(measured, ratio) ==
    /\ n_outputs < MaxOutputs
    /\ n_outputs' = n_outputs + 1
    /\ target_before' = target_ratio
    /\ rt_last_set' = TRUE
    /\ IF rt_last_set /\ measured
       THEN LET ema == IF rt_ratio_ema = << >>
                       THEN [num |-> ratio, den |-> 1]
                       ELSE EmaMix(rt_smooth, ratio, rt_ratio_ema[1])
            IN  /\ rt_ratio_ema' = <<ema>>
                /\ target_ratio' = AdjustTarget(target_ratio, ema)
                /\ adjusted' = TRUE
       ELSE /\ adjusted' = FALSE
            /\ UNCHANGED <<rt_ratio_ema, target_ratio>>
    /\ UNCHANGED rt_smooth

(***************************************************************************)
(* The frame queue of VideoWorker.run: the reader thread (reader_loop) and *)
(* the inference loop share frame_queue, a queue.Queue whose operations    *)
(* are atomic.  A frame is its read_index; item is << >> before the first  *)
(* frame.  The step of a processed frame is any step the scheduler can     *)
(* return with min_step = 1.                                               *)
(***************************************************************************)
VARIABLES
    worker_max_step,  \* scheduler.max_allowed_step
    queue_size,       \* queue_size, the maxsize of frame_queue
    video_len,        \* number of frames the capture yields
    frame_queue,      \* frame_queue
    read_index,       \* read_index
    item,             \* reader: the frame read last
    reader_pc,        \* reader: "grab", "put", "discard", "put_again", "done"
                      \* ("none": the thread was never started)
    infer_pc,         \* run: "get", "empty", "drop" in the inference loop,
                      \* "finally" after it, "finish" in the last finally
                      \* block, "done" after run has returned
    drops_left,       \* inference loop: iterations left of the drop loop
    reader_stop,      \* reader_stop.is_set()
    reader_done,      \* reader_done.is_set()
    had_error,        \* the local had_error of run
    interruption,     \* isInterruptionRequested()
    emitted,          \* the signals error and finished emitted so far
    full_head,        \* history: the oldest queued frame when the put of item
                      \* found the queue full (<< >> if it did not)
    head_at_discard,  \* history: the oldest queued frame when the reader
                      \* called get_nowait for item (<< >> if none)
    reader_discarded, \* history: the frame the reader removed for item
    lost,             \* history: the frames read whose second put failed
    inferred,         \* history: the frames handed to process_frame
    loop_exit         \* history: how the inference loop ended: "eof" by the
                      \* break, "interrupted" by its condition, "none"

queueVars == <<worker_max_step, queue_size, video_len, frame_queue, read_index,
               item, reader_pc, infer_pc, drops_left, reader_stop, reader_done,
               had_error, interruption, emitted, full_head, head_at_discard,
               reader_discarded, lost, inferred, loop_exit>>

\* the max_allowed_step argument of the worker is drawn from 0..MaxWorkerStepArg
MaxWorkerStepArg == 2
\* the capture yields up to MaxVideoFrames frames
MaxVideoFrames == 5

\* queue.Queue.put_nowait: ok is FALSE for queue.Full
QueuePutNowait(q, frame, maxsize) ==
    IF Len(q) >= maxsize THEN [ok |-> FALSE, queue |-> q]
    ELSE [ok |-> TRUE, queue |-> Append(q, frame)]

\* Mutant of QueueGetNowait: the newest frame is taken.
QueueGetNowaitNewest(q) ==
    IF q = << >> THEN [got |-> << >>, queue |-> q]
    ELSE [got |-> <<q[Len(q)]>>, queue |-> SubSeq(q, 1, Len(q) - 1)]

\* queue.Queue.get_nowait: got is << >> for queue.Empty
QueueGetNowait(q) ==
    IF q = << >> THEN [got |-> << >>, queue |-> q]
    ELSE [got |-> <<Head(q)>>, queue |-> Tail(q)]

\* Mutant of QueueGet: the newest frame is returned.
QueueGetNewest(q) ==
    IF q = << >> THEN [got |-> << >>, queue |-> q]
    ELSE [got |-> <<q[Len(q)]>>, queue |-> SubSeq(q, 1, Len(q) - 1)]

\* queue.Queue.get(timeout=0.5): the oldest frame, or queue.Empty (got is
\* << >>) when the queue has stayed empty for the timeout
QueueGet(q) ==
    IF q = << >> THEN [got |-> << >>, queue |-> q]
    ELSE [got |-> <<Head(q)>>, queue |-> Tail(q)]

\* The worker after reader_thread.start(), with the max_allowed_step
\* argument in steps and a capture of a length in lens.
QueueInit(steps, lens) ==
    /\ worker_max_step \in {Max(1, arg) : arg \in steps}
    /\ queue_size = Max(2, worker_max_step + 2)
    /\ video_len \in lens
    /\ frame_queue = << >>
    /\ read_index = 0
    /\ item = << >>
    /\ reader_pc = "grab"
    /\ infer_pc = "get"
    /\ drops_left = 0
    /\ reader_stop = FALSE
    /\ reader_done = FALSE
    /\ had_error = FALSE
    /\ interruption = FALSE
    /\ emitted = << >>
    /\ full_head = << >>
    /\ head_at_discard = << >>
    /\ reader_discarded = << >>
    /\ lost = {}
    /\ inferred = << >>
    /\ loop_exit = "none"

\* run, lines 74-77: the capture could not be opened; error is emitted,
\* had_error is set and run returns through its finally blocks without
\* starting the reader thread.
OpenFailed ==
    /\ worker_max_step = 1
    /\ queue_size = 3
    /\ video_len = 0
    /\ frame_queue = << >>
    /\ read_index = 0
    /\ item = << >>
    /\ reader_pc = "none"
    /\ infer_pc = "finish"
    /\ drops_left = 0
    /\ reader_stop = FALSE
    /\ reader_done = FALSE
    /\ had_error = TRUE
    /\ interruption = FALSE
    /\ emitted = <<"error">>
    /\ full_head = << >>
    /\ head_at_discard = << >>
    /\ reader_discarded = << >>
    /\ lost = {}
    /\ inferred = << >>
    /\ loop_exit = "none"

\* reader_loop, lines 109-131 and 143-144: the loop ends when reader_stop is
\* set or an interruption is requested; otherwise the next frame is read, or
\* the capture ends.  A capture that ends before its first frame makes the
\* reader emit error; the assignment had_error = True that follows binds a
\* local of reader_loop (only read_index is declared nonlocal), so the
\* had_error of run keeps its value.  On every way out reader_done is set.
Reader_grab ==
    /\ reader_pc = "grab"
    /\ IF reader_stop \/ interruption
       THEN /\ reader_pc' = "done"
            /\ reader_done' = TRUE
            /\ UNCHANGED <<item, read_index, full_head, head_at_discard,
                           reader_discarded, emitted>>
       ELSE IF read_index < video_len
       THEN /\ item' = <<read_index>>
            /\ read_index' = read_index + 1
            /\ reader_pc' = "put"
            /\ full_head' = << >>
            /\ head_at_discard' = << >>
            /\ reader_discarded' = << >>
            /\ UNCHANGED <<reader_done, emitted>>
       ELSE /\ emitted' = IF read_index = 0 THEN Append(emitted, "error")
                          ELSE emitted
            /\ reader_pc' = "done"
            /\ reader_done' = TRUE
            /\ UNCHANGED <<item, read_index, full_head, head_at_discard,
                           reader_discarded>>
    /\ UNCHANGED <<worker_max_step, queue_size, video_len, frame_queue, infer_pc,
                   drops_left, reader_stop, had_error, interruption, lost,
                   inferred, loop_exit>>

\* reader_loop, lines 132-134: frame_queue.put_nowait(item)
Reader_put ==
    /\ reader_pc = "put"
    /\ LET r == QueuePutNowait(frame_queue, item[1], queue_size)
       IN  IF r.ok
           THEN /\ frame_queue' = r.queue
                /\ reader_pc' = "grab"
                /\ UNCHANGED full_head
           ELSE /\ reader_pc' = "discard"
                /\ full_head' = <<Head(frame_queue)>>
                /\ UNCHANGED frame_queue
    /\ UNCHANGED <<worker_max_step, queue_size, video_len, read_index, item,
                   infer_pc, drops_left, reader_stop, reader_done, had_error,
                   interruption, emitted, head_at_discard, reader_discarded,
                   lost, inferred, loop_exit>>

\* reader_loop, lines 135-138: frame_queue.get_nowait()
Reader_discard ==
    /\ reader_pc = "discard"
    /\ LET g == QueueGetNowait(frame_queue)
       IN  /\ frame_queue' = g.queue
           /\ reader_discarded' = g.got
    /\ head_at_discard' = IF frame_queue = << >> THEN << >> ELSE <<Head(frame_queue)>>
    /\ reader_pc' = "put_again"
    /\ UNCHANGED <<worker_max_step, queue_size, video_len, read_index, item,
                   infer_pc, drops_left, reader_stop, reader_done, had_error,
                   interruption, emitted, full_head, lost, inferred, loop_exit>>

\* reader_loop, lines 139-142: the second frame_queue.put_nowait(item)
Reader_put_again ==
    /\ reader_pc = "put_again"
    /\ LET r == QueuePutNowait(frame_queue, item[1], queue_size)
       IN  /\ frame_queue' = r.queue
           /\ lost' = IF r.ok THEN lost ELSE lost \cup {item[1]}
    /\ reader_pc' = "grab"
    /\ UNCHANGED <<worker_max_step, queue_size, video_len, read_index, item,
                   infer_pc, drops_left, reader_stop, reader_done, had_error,
                   interruption, emitted, full_head, head_at_discard,
                   reader_discarded, inferred, loop_exit>>

\* the steps of the reader thread
Reader == Reader_grab \/ Reader_put \/ Reader_put_again \/ Reader_discard

\* inference loop, lines 153-174: the loop ends when an interruption is
\* requested; otherwise frame_queue.get(timeout=0.5) returns a frame, which
\* is processed and for which the scheduler returns step, or raises
\* queue.Empty.
Infer_get(step) ==
    /\ infer_pc = "get"
    /\ IF interruption
       THEN /\ infer_pc' = "finally"
            /\ loop_exit' = "interrupted"
            /\ UNCHANGED <<frame_queue, drops_left, inferred>>
       ELSE LET g == QueueGet(frame_queue)
            IN  IF g.got # << >>
                THEN /\ frame_queue' = g.queue
                     /\ inferred' = Append(inferred, g.got[1])
                     /\ drops_left' = Max(0, step - 1)
                     /\ infer_pc' = IF step > 1 THEN "drop" ELSE "get"
                     /\ UNCHANGED loop_exit
                ELSE /\ infer_pc' = "empty"
                     /\ UNCHANGED <<frame_queue, drops_left, inferred,
                                    loop_exit>>
    /\ UNCHANGED <<worker_max_step, queue_size, video_len, read_index, item,
                   reader_pc, reader_stop, reader_done, had_error, interruption,
                   emitted, full_head, head_at_discard, reader_discarded, lost>>

\* inference loop, lines 161-164: "except queue.Empty: if
\* reader_done.is_set(): break; continue"
Infer_empty ==
    /\ infer_pc = "empty"
    /\ IF reader_done
       THEN /\ infer_pc' = "finally"
            /\ loop_exit' = "eof"
       ELSE /\ infer_pc' = "get"
            /\ UNCHANGED loop_exit
    /\ UNCHANGED <<worker_max_step, queue_size, video_len, frame_queue,
                   read_index, item, reader_pc, drops_left, reader_stop,
                   reader_done, had_error, interruption, emitted, full_head,
                   head_at_discard, reader_discarded, lost, inferred>>

\* inference loop, lines 178-184: one iteration of the drop loop
Infer_drop ==
    /\ infer_pc = "drop"
    /\ LET g == QueueGetNowait(frame_queue)
       IN  IF g.got = << >>
           THEN /\ infer_pc' = "get"
                /\ drops_left' = 0
                /\ UNCHANGED frame_queue
           ELSE /\ frame_queue' = g.queue
                /\ drops_left' = drops_left - 1
                /\ infer_pc' = IF drops_left = 1 THEN "get" ELSE "drop"
    /\ UNCHANGED <<worker_max_step, queue_size, video_len, read_index, item,
                   reader_pc, reader_stop, reader_done, had_error, interruption,
                   emitted, full_head, head_at_discard, reader_discarded, lost,
                   inferred, loop_exit>>

\* run, lines 252-257: reader_stop.set(); reader_thread.join(timeout=2.0),
\* which returns when the reader has ended or the timeout has passed;
\* cap.release()
Run_finally ==
    /\ infer_pc = "finally"
    /\ reader_stop' = TRUE
    /\ infer_pc' = "finish"
    /\ UNCHANGED <<worker_max_step, queue_size, video_len, frame_queue,
                   read_index, item, reader_pc, drops_left, reader_done,
                   had_error, interruption, emitted, full_head,
                   head_at_discard, reader_discarded, lost, inferred,
                   loop_exit>>

\* run, lines 282-288: "if not had_error and not
\* self.isInterruptionRequested(): self.finished.emit("eof")"
Run_finish ==
    /\ infer_pc = "finish"
    /\ emitted' = IF ~had_error /\ ~interruption
                  THEN Append(emitted, "finished") ELSE emitted
    /\ infer_pc' = "done"
    /\ UNCHANGED <<worker_max_step, queue_size, video_len, frame_queue,
                   read_index, item, reader_pc, drops_left, reader_stop,
                   reader_done, had_error, interruption, full_head,
                   head_at_discard, reader_discarded, lost, inferred,
                   loop_exit>>

\* requestInterruption() is called on the worker while run is executing
RequestInterruption ==
    /\ infer_pc # "done"
    /\ ~interruption
    /\ interruption' = TRUE
    /\ UNCHANGED <<worker_max_step, queue_size, video_len, frame_queue,
                   read_index, item, reader_pc, infer_pc, drops_left,
                   reader_stop, reader_done, had_error, emitted, full_head,
                   head_at_discard, reader_discarded, lost, inferred,
                   loop_exit>>

(***************************************************************************)
(* iter_frame_outputs of src/runtime/pipeline.py as export_core drives it   *)
(* for a report (infer_every = 1), and the conversion of its FrameOutputs  *)
(* to the _FrameSignals of build_report.  Times are carried in ticks of    *)
(* half a second, whatever unit the source holds them in (the container    *)
(* position and time_ms in milliseconds, video_t_s and ts_s in seconds);   *)
(* fps_assume is 1 or 2 frames per second, so that a frame index is a      *)
(* whole number of ticks.  An Optional value is an empty or a one-element  *)
(* sequence.                                                               *)
(***************************************************************************)
VARIABLES
    fps_assume,         \* args.fps_assume = cfg.fps_assume
    start_sec,          \* args.start_sec
    end_sec,            \* args.end_sec
    video_idx,          \* idx of VideoSource.__iter__
    last_timestamp_ms,  \* last_timestamp_ms
    frame_outputs,      \* the FrameOutputs yielded so far
    pipe_pc,            \* "loop": in the while loop; "done": it has ended
    frames_left         \* number of frames the capture still yields

pipeVars == <<fps_assume, start_sec, end_sec, video_idx, last_timestamp_ms,
              frame_outputs, pipe_pc, frames_left>>

\* the capture of a pipeline run yields up to MaxPipeFrames frames
MaxPipeFrames == 3
\* cap.get(cv2.CAP_PROP_POS_MSEC) is drawn from 0..MaxStamp
MaxStamp == 3

\* get_video_time_s: None for a position that is not positive
get_video_time_s(msec) == IF msec <= 0 THEN << >> ELSE <<msec>>

\* derive_time_ms; frame_index / max(fps_assume, 1e-3) seconds are
\* index * 2 / fps_assume ticks
derive_time_ms(timestamp_ms, last_time_ms, fps, index) ==
    IF last_time_ms = << >> THEN timestamp_ms
    ELSE IF timestamp_ms >= last_time_ms[1] THEN timestamp_ms
    ELSE LET fallback == (index * 2) \div fps
         IN  Max(last_time_ms[1], fallback)

\* should_process_frame
should_process_frame(time_ms, start, end) ==
    IF start # << >> /\ time_ms < start[1] THEN FALSE
    ELSE IF end # << >> /\ time_ms > end[1] THEN FALSE
    ELSE TRUE

\* The FrameOutput that iter_frame_outputs yields (lines 318-342): metrics
\* holds the stable tags, the people count, the container time video_t_s
\* and the derived time time_ms, and timestamp_ms is time_ms.  The state is
\* that of a StateEngine5 with debounce_k = 1.
FrameOutput(index, time_ms, video_t_s, tags_c, tags_d, people) ==
    [frame_index |-> index,
     timestamp_ms |-> <<time_ms>>,
     state |-> StateEngine5_classify(tags_c \cup tags_d)[1],
     metrics |-> [people_count |-> people, tags_c |-> tags_c,
                  tags_d |-> tags_d, video_t_s |-> video_t_s,
                  time_ms |-> <<time_ms>>]]

\* _frame_to_signal
FrameToSignal(output, fps) ==
    LET metrics   == output.metrics
        ts_s      == IF metrics.video_t_s = << >>
                     THEN IF metrics.time_ms # << >> THEN metrics.time_ms[1]
                          ELSE (output.frame_index * 2) \div fps
                     ELSE metrics.video_t_s[1]
        people_count == IF metrics.people_count = << >> THEN 0
                        ELSE metrics.people_count[1]
    IN  [frame_idx |-> output.frame_index, ts_s |-> ts_s,
         people_count |-> people_count,
         open_state |-> "close" \notin metrics.tags_c,
         sampling_present |-> "sampling" \in metrics.tags_c,
         blocking_state |->
             IF "blocking" \in metrics.tags_d THEN "blocking"
             ELSE IF "no_blocking" \in metrics.tags_d THEN "no_blocking"
             ELSE "unknown"]

\* build_report, line 468: the _FrameSignal list of the outputs
FramesOf(outputs, fps) ==
    [i \in 1..Len(outputs) |-> FrameToSignal(outputs[i], fps)]

\* The state before the first iteration of iter_frame_outputs, for a
\* capture of n frames.
PipelineInit(fpss, starts, ends, n) ==
    /\ fps_assume \in fpss
    /\ start_sec \in starts
    /\ end_sec \in ends
    /\ video_idx = 0
    /\ last_timestamp_ms = << >>
    /\ frame_outputs = << >>
    /\ pipe_pc = "loop"
    /\ frames_left = n

\* One iteration of the while loop of iter_frame_outputs (lines 219-342):
\* the capture yields a frame at position msec, for which the smoothers
\* return tags_c, tags_d and people.
Pipeline_frame(msec, tags_c, tags_d, people) ==
    /\ pipe_pc = "loop"
    /\ frames_left > 0
    /\ LET index       == video_idx
           video_t_s   == get_video_time_s(msec)
           time_ms     == derive_time_ms(msec, last_timestamp_ms, fps_assume,
                                         index)
       IN  /\ last_timestamp_ms' = <<time_ms>>
           /\ IF ~should_process_frame(time_ms, start_sec, end_sec)
              THEN /\ pipe_pc' = IF end_sec # << >> /\ time_ms > end_sec[1]
                                 THEN "done" ELSE "loop"
                   /\ UNCHANGED frame_outputs
              ELSE /\ frame_outputs' =
                         Append(frame_outputs,
                                FrameOutput(index, time_ms, video_t_s,
                                            tags_c, tags_d, people))
                   /\ UNCHANGED pipe_pc
    /\ video_idx' = video_idx + 1
    /\ frames_left' = frames_left - 1
    /\ UNCHANGED <<fps_assume, start_sec, end_sec>>

\* The capture has no further frame: StopIteration ends the loop.
Pipeline_stop ==
    /\ pipe_pc = "loop"
    /\ pipe_pc' = "done"
    /\ UNCHANGED <<fps_assume, start_sec, end_sec, video_idx, last_timestamp_ms,
                   frame_outputs, frames_left>>

\* the variables of the run-time components: event contract, video worker
\* and pipeline
workerVars == <<normVars, feedbackVars, queueVars, pipeVars>>

\* all variables of the model
vars == <<tagVars, engineVars, peopleVars, builderVars, schedVars, workerVars>>

(***************************************************************************)
(* Claims about the tag smoothers (checked under SpecTags).                *)
(***************************************************************************)
\* C2: tag hysteresis.  For every configured tag, the last update switched
\* active from false to true exactly if it completed a run of on_threshold
\* consecutive frames that fed the tag while the tag was inactive, and from
\* true to false exactly if it completed a run of off_threshold consecutive
\* frames that did not feed it while the tag was active; active changes on no
\* other call.  (A frame feeds "blocking" to the blocking smoother only if it
\* does not also hold "no_blocking".)
C2_TagHysteresis ==
    \A tag \in DOMAIN tag_state :
        LET was == was_active[tag]
            now == tag_state[tag].active
        IN  /\ (~was /\ now) <=>
                  (~was /\ n_updates > 0
                        /\ seen_run[tag].present = thresholds[tag].on_count)
            /\ (was /\ ~now) <=>
                  (was /\ seen_run[tag].absent = thresholds[tag].off_count)

\* C2 witness: a tag with on_threshold 2 and off_threshold 2 that was returned
\* as active earlier has just been switched off by its second absent frame.
C2_Witness ==
    \E tag \in DOMAIN tag_state :
        /\ thresholds[tag] = [on_count |-> 2, off_count |-> 2]
        /\ was_active[tag] /\ ~tag_state[tag].active
        /\ seen_run[tag].absent = 2

\* C3: force_one_of fallback of the blocking smoother.  Once an update has
\* returned a non-empty set, every later update returns a set that meets
\* force_one_of, and when the hysteresis-active set of the frame does not
\* meet force_one_of the returned set is the most recent non-empty set
\* returned before.
C3_ForceOneOfFallback ==
    (smoother_class = "BlockingSmoother" /\ force_one_of # {} /\ prev_nonempty # {})
        => /\ (tags_stable \cap force_one_of) # {}
           /\ (ActiveTags(tag_state) \cap force_one_of) = {}
                 => tags_stable = prev_nonempty

\* C3 witness: hysteresis has switched both blocking tags off and the update
\* returned the set it had returned before.
C3_Witness ==
    /\ smoother_class = "BlockingSmoother"
    /\ force_one_of = TagsD
    /\ prev_nonempty # {}
    /\ ActiveTags(tag_state) = {}
    /\ tags_stable = prev_nonempty

\* C25 (as claimed): for every configured tag of either smoother exactly one
\* of on_count and off_count is non-zero at any time of the smoother's life.
C25_ExactlyOneCounterNonZero ==
    \A tag \in DOMAIN tag_state :
        (tag_state[tag].on_count = 0) # (tag_state[tag].off_count = 0)

\* C25 (amended): for every configured tag of either smoother both counters
\* are 0 from construction to the first update, and after every update
\* exactly one of them is non-zero: on_count is the length of the current run
\* of frames that fed the tag and off_count the length of the current run of
\* frames that did not.
C25_ExactlyOneCounterNonZeroAfterUpdate ==
    \A tag \in DOMAIN tag_state :
        LET on  == tag_state[tag].on_count
            off == tag_state[tag].off_count
        IN  /\ n_updates = 0 => (on = 0 /\ off = 0)
            /\ n_updates > 0 => ((on = 0) # (off = 0))
            /\ on = seen_run[tag].present
            /\ off = seen_run[tag].absent

\* C25 witness: after some updates one tag of a smoother has counted two
\* frames that fed it and another two frames that did not.
C25_Witness ==
    /\ n_updates > 0
    /\ \E t1, t2 \in DOMAIN tag_state :
          /\ tag_state[t1].on_count >= 2 /\ tag_state[t1].off_count = 0
          /\ tag_state[t2].off_count >= 2 /\ tag_state[t2].on_count = 0

\* C27: mutual exclusion in the blocking smoother.  Every update whose raw
\* tags hold both blocking and no_blocking resets the on_count of blocking to
\* 0 and increments its off_count, increments the on_count of no_blocking
\* and resets its off_count, and debug_info() reports the raw presence of
\* both tags and those counters as they are after the update.
C27_MutualExclusion ==
    [][(/\ smoother_class = "BlockingSmoother"
        /\ n_updates' = n_updates + 1
        /\ last_debug'["blocking"].raw
        /\ last_debug'["no_blocking"].raw)
       => /\ tag_state'["blocking"].on_count = 0
          /\ tag_state'["blocking"].off_count = tag_state["blocking"].off_count + 1
          /\ tag_state'["no_blocking"].on_count = tag_state["no_blocking"].on_count + 1
          /\ tag_state'["no_blocking"].off_count = 0
          /\ \A tag \in TagsD :
                /\ last_debug'[tag].on = tag_state'[tag].on_count
                /\ last_debug'[tag].off = tag_state'[tag].off_count]_vars

\* C27 witness: the last two frames held both blocking and no_blocking, and
\* debug_info() shows blocking absent twice and no_blocking present twice.
C27_Witness ==
    /\ smoother_class = "BlockingSmoother"
    /\ last_debug["blocking"].raw /\ last_debug["no_blocking"].raw
    /\ last_debug["blocking"].on = 0 /\ last_debug["blocking"].off >= 2
    /\ last_debug["no_blocking"].on >= 2 /\ last_debug["no_blocking"].off = 0

\* C23 (as claimed, checked under SpecTagsMisconfigured): a tag smoother
\* whose force_one_of names a tag that is absent from thresholds fails at
\* construction, so no update is ever executed on such an instance.
C23_MisconfiguredNeverUpdated ==
    ~(force_one_of \subseteq DOMAIN thresholds) => n_updates = 0

\* C36 (checked under SpecTagsDefault): with the default configuration of
\* the blocking channel the stable tag set returned by
\* BlockingSmoother.update never holds both blocking and no_blocking, and
\* the two tags are never active together.
C36_DefaultNeverBoth ==
    n_updates > 0 =>
        /\ ~({"blocking", "no_blocking"} \subseteq tags_stable)
        /\ ~({"blocking", "no_blocking"} \subseteq ActiveTags(tag_state))
        /\ ~({"blocking", "no_blocking"} \subseteq last_active)

\* C36 witness: the default smoother returns no_blocking by itself after it
\* had returned blocking, blocking having become inactive in this update.
C36_Witness ==
    /\ thresholds = DefaultBlockingThresholds
    /\ tags_stable = {"no_blocking"}
    /\ prev_nonempty = {"blocking"}
    /\ was_active["blocking"]
    /\ tag_state["no_blocking"].on_count = 3

(***************************************************************************)
(* Claims about the state engine (checked under SpecEngine).               *)
(***************************************************************************)
\* C4: classifier precedence.  For every subset of {close, sampling,
\* blocking, no_blocking} given to compute, state_raw is CLOSE if close is
\* present; otherwise, if no_blocking is present (even with blocking),
\* OPEN_DANGER with sampling and OPEN_VIOLATION without; otherwise, if
\* blocking is present, OPEN_NORMAL_SAMPLING with sampling and
\* OPEN_NORMAL_IDLE without; otherwise OPEN_UNKNOWN with reason
\* open_missing_blocking.
C4_ClassifierPrecedence ==
    n_calls > 0 =>
        LET close == "close" \in call_tags
            nb    == "no_blocking" \in call_tags
            b     == "blocking" \in call_tags
            s     == "sampling" \in call_tags
            r     == result.state_raw
        IN  /\ close => r = "CLOSE"
            /\ (~close /\ nb /\ s) => r = "OPEN_DANGER"
            /\ (~close /\ nb /\ ~s) => r = "OPEN_VIOLATION"
            /\ (~close /\ ~nb /\ b /\ s) => r = "OPEN_NORMAL_SAMPLING"
            /\ (~close /\ ~nb /\ b /\ ~s) => r = "OPEN_NORMAL_IDLE"
            /\ (~close /\ ~nb /\ ~b) =>
                  (r = "OPEN_UNKNOWN" /\ result.reason = "open_missing_blocking")

\* C4 witness: close together with open signals classified as CLOSE.
C4_Witness ==
    /\ n_calls > 0
    /\ call_tags = {"close", "blocking", "sampling"}
    /\ result.state_raw = "CLOSE"

\* C5: strict consecutive-run debounce.  With debounce_k > 1, a compute call
\* changes the exposed stable state (from one state to another) to X only if
\* it completes debounce_k consecutive calls whose raw state is X.
C5_StrictRunDebounce ==
    (debounce_k > 1 /\ prev_stable # None /\ stable # prev_stable)
        => (raw_run.state = stable /\ raw_run.n >= debounce_k)

\* C5 witness: with debounce_k = 3 the stable state has just changed.
C5_Witness ==
    /\ debounce_k = 3
    /\ prev_stable # None
    /\ stable # prev_stable
    /\ result.state_5class = stable

\* C26: debounce lag bound.  With debounce_k > 1, a compute call that
\* completes debounce_k (or more) consecutive calls with the raw state X
\* returns X as the stable state; with debounce_k <= 1 every call returns
\* its raw state as the stable state.
C26_DebounceLagBound ==
    n_calls > 0 =>
        /\ (debounce_k > 1 /\ raw_run.n >= debounce_k)
              => (result.state_5class = raw_run.state /\ stable = raw_run.state)
        /\ debounce_k <= 1 => result.state_5class = result.state_raw

\* C26 witness: with debounce_k = 3 the third consecutive call with a raw
\* state other than the stable one has made that state the stable state.
C26_Witness ==
    /\ debounce_k = 3
    /\ raw_run.n = 3
    /\ prev_stable # None
    /\ prev_stable # raw_run.state
    /\ result.state_5class = raw_run.state

(***************************************************************************)
(* Claims about the people smoother (checked under SpecPeople).            *)
(***************************************************************************)
\* C6 (as claimed): count hold asymmetry.  Once the smoother has returned a
\* non-zero count, an update changes the exposed stable count from
\* expected_target to another value only if it completes hold_out
\* consecutive candidates different from expected_target, and from another
\* value to expected_target only if it completes hold_back consecutive
\* candidates equal to expected_target.
C6_HoldAsymmetry ==
    seen_nonzero =>
        /\ (prev_stable_count = people_cfg.expected_people
                /\ stable_count # people_cfg.expected_people)
              => candidate_run.other >= hold_out
        /\ (prev_stable_count # people_cfg.expected_people
                /\ stable_count = people_cfg.expected_people)
              => candidate_run.target >= hold_back

\* C28: track aging.  On every update, an id that is not seen stays tracked
\* (with its last_seen and hits) exactly while its age is at most
\* max_id_age and is forgotten together with its hits otherwise; an id that
\* is seen gets one hit more, starting from 0 if it was not tracked; the ids
\* counted are exactly the tracked ids whose age is at most active_id_age
\* and whose hits are at least min_track_hits, and the counted total of the
\* frame is their number.
C28_TrackAging ==
    [][frame_index' = frame_index + 1 =>
        LET c        == people_cfg
            now      == frame_index'
            seen_now == {tid \in DOMAIN last_seen' : last_seen'[tid] = now}
        IN  /\ \A tid \in (DOMAIN last_seen) \ seen_now :
                  (tid \in DOMAIN last_seen')
                      <=> (now - last_seen[tid] <= c.max_id_age)
            /\ \A tid \in (DOMAIN last_seen') \ seen_now :
                  /\ tid \in DOMAIN last_seen
                  /\ last_seen'[tid] = last_seen[tid]
                  /\ hits'[tid] = hits[tid]
            /\ \A tid \in seen_now :
                  hits'[tid] = (IF tid \in DOMAIN hits THEN hits[tid] ELSE 0) + 1
            /\ DOMAIN hits' = DOMAIN last_seen'
            /\ \A tid \in TrackIds :
                  (tid \in last_active_ids')
                      <=> (/\ tid \in DOMAIN last_seen'
                           /\ now - last_seen'[tid] <= c.active_id_age
                           /\ hits'[tid] >= c.min_track_hits)
            /\ count_log'[Len(count_log')] = Cardinality(last_active_ids')
            /\ history'[Len(history')] = Cardinality(last_active_ids')]_vars

\* C28 witness: with min_track_hits = 2 and active_id_age = 0 < max_id_age
\* = 2 one id is counted after its second hit while another, last seen two
\* frames ago, is tracked and not counted.
C28_Witness ==
    /\ people_cfg.min_track_hits = 2
    /\ people_cfg.active_id_age = 0
    /\ people_cfg.max_id_age = 2
    /\ \E t1, t2 \in DOMAIN last_seen :
          /\ t1 \in last_active_ids /\ hits[t1] = 2
          /\ t2 \notin last_active_ids /\ frame_index - last_seen[t2] = 2
                /\ hits[t2] >= 2

\* The counted totals the vote of the last update looked at: the last 25.
LastCounts ==
    SubSeq(count_log, Max(1, Len(count_log) - vote_window_n + 1), Len(count_log))

\* The counts of LastCounts other than expected_people.
OtherCounts ==
    {LastCounts[i] : i \in 1..Len(LastCounts)} \ {people_cfg.expected_people}

\* C29 (checked under SpecPeopleWarm): vote candidate selection.  After
\* every update the vote window holds the last 25 counted totals; if at
\* least 60 % of them equal expected_people the candidate is
\* expected_people; otherwise, if at least 80 % of them differ from it, the
\* candidate is the most frequent of the other counts, the larger count of
\* two equally frequent ones.
C29_VoteCandidate ==
    frame_index > 0 =>
        LET total    == Len(LastCounts)
            n_target == CountOf(LastCounts, people_cfg.expected_people)
        IN  /\ vote_window = LastCounts
            /\ 100 * n_target >= p_accept_2 * total
                  => candidate_count = people_cfg.expected_people
            /\ (/\ 100 * n_target < p_accept_2 * total
                /\ 100 * (total - n_target) >= p_accept_other * total)
                  => /\ candidate_count \in OtherCounts
                     /\ \A j \in OtherCounts :
                           \/ CountOf(LastCounts, j)
                                 < CountOf(LastCounts, candidate_count)
                           \/ /\ CountOf(LastCounts, j)
                                    = CountOf(LastCounts, candidate_count)
                              /\ j <= candidate_count

\* C29 witness: the window has rolled (more than 25 updates), fewer than
\* 60 % of its counts are expected_people, and the candidate is the larger
\* of two equally frequent other counts.
C29_Witness ==
    /\ Len(count_log) > vote_window_n
    /\ candidate_count # people_cfg.expected_people
    /\ \E j \in OtherCounts :
          /\ j < candidate_count
          /\ CountOf(LastCounts, j) = CountOf(LastCounts, candidate_count)

(***************************************************************************)
(* Claims about the session builder (checked under SpecSessions).          *)
(* Interval k of the input lies between frames[k] and frames[k + 1] and    *)
(* has the session type of frames[k]; the frame with frame_idx f is        *)
(* frames[f + 1].                                                          *)
(***************************************************************************)
NIntervals == IF Len(frames) = 0 THEN 0 ELSE Len(frames) - 1

IntervalDt(k) == frames[k + 1].ts_s - frames[k].ts_s

IntervalType(k) == SessionType(frames[k])

\* Interval k is a sampling interval of type T (and not skipped).
IsOfType(T, k) == IntervalDt(k) > 0 /\ IntervalType(k) = T

LastTs == frames[Len(frames)].ts_s

RECURSIVE TimeOfType(_, _, _)
\* The total length of the intervals a..c that are of type T.
TimeOfType(T, a, c) ==
    IF a > c THEN 0
    ELSE (IF IntervalType(c) = T THEN IntervalDt(c) ELSE 0) + TimeOfType(T, a, c - 1)

RECURSIVE TrailingGap(_, _)
\* The time from the end of the last interval of type T up to the end of
\* interval n.
TrailingGap(T, n) ==
    IF n = 0 \/ IsOfType(T, n) THEN 0 ELSE IntervalDt(n) + TrailingGap(T, n - 1)

RECURSIVE ForwardGap(_, _)
\* The time from the start of interval k to the next interval of type T (or
\* to the last frame).
ForwardGap(T, k) ==
    IF k > NIntervals \/ IsOfType(T, k) THEN 0 ELSE IntervalDt(k) + ForwardGap(T, k + 1)

\* From interval a on, intervals of type T accumulate sampling_start_s with
\* no interval of the other session type and no stretch of non-sampling
\* intervals longer than gap_allow_sampling_s in between.
ConfirmedFrom(T, a) ==
    /\ a \in 1..NIntervals
    /\ IsOfType(T, a)
    /\ \E c \in a..NIntervals :
          /\ \A k \in a..c : IntervalDt(k) = 0 \/ IntervalType(k) \in {T, None}
          /\ TimeOfType(T, a, c) >= cfg.sampling_start_s
          /\ \A i \in a..c : \A j \in i..c :
                (\A k \in i..j : IntervalType(k) = None)
                    => TimeOfType(None, i, j) <= cfg.gap_allow_sampling_s

\* C1 (as claimed): the sessions returned are time-ordered and pairwise
\* non-overlapping (each start_ts is not before the previous end_ts), and
\* every session has end_ts >= start_ts.
C1_SessionsDisjoint ==
    /\ \A i \in 1..Len(sessions) : sessions[i].end_ts_s >= sessions[i].start_ts_s
    /\ \A i \in 1..(Len(sessions) - 1) :
          sessions[i + 1].start_ts_s >= sessions[i].end_ts_s

\* C7: session confirmation.  Every session, open or returned, starts at an
\* interval of its type from which intervals of that type accumulated at
\* least sampling_start_s with no gap longer than gap_allow_sampling_s and
\* no interval of the other type, so nothing of a discarded candidate counts.
C7_SessionConfirmation ==
    /\ current_session # NoSession =>
          /\ ConfirmedFrom(current_session.type, current_session.start_frame + 1)
          /\ current_session.start_ts = frames[current_session.start_frame + 1].ts_s
    /\ \A i \in 1..Len(sessions) :
          /\ ConfirmedFrom(sessions[i].session_type, sessions[i].start_frame_idx + 1)
          /\ sessions[i].start_ts_s = frames[sessions[i].start_frame_idx + 1].ts_s

\* C7 witness: a session was confirmed after a candidate of the same type
\* had been discarded for a gap longer than gap_allow_sampling_s.
C7_Witness ==
    /\ current_session # NoSession
    /\ current_session.start_frame >= 2
    /\ IntervalType(1) = current_session.type
    /\ IntervalDt(1) > 0
    /\ \A k \in 2..current_session.start_frame : IntervalType(k) = None
    /\ sessions = << >>

\* C8: session gap tolerance.  While the time since the last interval of an
\* open session's type is at most gap_allow_sampling_s the session stays
\* open and nothing is emitted, and an interval of its type that follows
\* such an interruption extends the same session (same start) to the end of
\* that interval: one session, never two.
C8_GapTolerance ==
    (pc = "loop" /\ NIntervals >= 1 /\ before.current_session # NoSession
        /\ IntervalDt(NIntervals) > 0)
    => LET T == before.current_session.type
           resumed == /\ IntervalType(NIntervals) = T
                      /\ TrailingGap(T, NIntervals - 1) <= cfg.gap_allow_sampling_s
           bridged == /\ IntervalType(NIntervals) # T
                      /\ TrailingGap(T, NIntervals) <= cfg.gap_allow_sampling_s
       IN  (resumed \/ bridged)
               => /\ sessions = before.sessions
                  /\ current_session # NoSession
                  /\ current_session.type = T
                  /\ current_session.start_ts = before.current_session.start_ts
                  /\ current_session.end_ts = LastTs

\* C8 witness: an open session was interrupted for a time within the
\* tolerance and an interval of its type has just extended it.
C8_Witness ==
    /\ pc = "loop"
    /\ NIntervals >= 3
    /\ before.current_session # NoSession
    /\ IsOfType(before.current_session.type, NIntervals)
    /\ TrailingGap(before.current_session.type, NIntervals - 1) >= 1
    /\ TrailingGap(before.current_session.type, NIntervals - 1) <= cfg.gap_allow_sampling_s
    /\ current_session # NoSession
    /\ current_session.end_ts = LastTs
    /\ sessions = << >>

\* max(sampling_end_s, gap_allow_sampling_s)
GapThreshold ==
    IF cfg.sampling_end_s > cfg.gap_allow_sampling_s
    THEN cfg.sampling_end_s ELSE cfg.gap_allow_sampling_s

\* The last iteration closed the session that was open before it.
ClosedNow ==
    /\ current_session = NoSession
    /\ Len(sessions) = Len(before.sessions) + 1

\* An iteration has just handled an interval that is not of the type of the
\* session that was open before it.
GapIteration ==
    /\ pc = "loop"
    /\ NIntervals >= 1
    /\ before.current_session # NoSession
    /\ IntervalDt(NIntervals) > 0
    /\ IntervalType(NIntervals) # before.current_session.type

\* The session closed by the last iteration ends at the end of the closing
\* interval less the excess of gap over the threshold.
ClosedBackdated(gap) ==
    /\ sessions[Len(sessions)].session_type = before.current_session.type
    /\ sessions[Len(sessions)].start_ts_s = before.current_session.start_ts
    /\ sessions[Len(sessions)].end_ts_s = LastTs - (gap - GapThreshold)

\* C9 (as claimed): a confirmed session is closed as soon as its gap reaches
\* max(sampling_end_s, gap_allow_sampling_s), with end_ts moved back by the
\* excess of the gap over that threshold.
C9_ClosedWhenGapReachesEnd ==
    GapIteration =>
        LET gap == TrailingGap(before.current_session.type, NIntervals)
        IN  /\ ClosedNow <=> gap >= GapThreshold
            /\ ClosedNow => ClosedBackdated(gap)

\* C9 (amended): a confirmed session is closed as soon as its gap exceeds
\* gap_allow_sampling_s and has reached max(sampling_end_s,
\* gap_allow_sampling_s), with end_ts moved back by the excess of the gap
\* over that threshold; until then it stays open and nothing is emitted.
C9_ClosedWhenGapExceedsAllow ==
    GapIteration =>
        LET gap == TrailingGap(before.current_session.type, NIntervals)
        IN  /\ ClosedNow <=> (gap > cfg.gap_allow_sampling_s
                                /\ gap >= GapThreshold)
            /\ ClosedNow => ClosedBackdated(gap)
            /\ ~ClosedNow => /\ sessions = before.sessions
                             /\ current_session # NoSession
                             /\ current_session.start_ts = before.current_session.start_ts

\* C9 witness: a session has just been closed by an interval that took the
\* gap beyond the threshold, so its end was moved back.
C9_Witness ==
    /\ GapIteration
    /\ ClosedNow
    /\ TrailingGap(before.current_session.type, NIntervals) > GapThreshold
    /\ sessions[Len(sessions)].end_ts_s < LastTs

\* The last interval of the type of returned session s before s was closed.
LastSamplingInterval(s) ==
    CHOOSE k \in 1..(s.end_frame_idx + 1) :
        /\ IsOfType(s.session_type, k)
        /\ \A j \in (k + 1)..(s.end_frame_idx + 1) : ~IsOfType(s.session_type, j)

\* The returned session s was followed by a gap that grew to
\* gap_allow_sampling_s + sampling_end_s.
FollowedByLongGap(s) ==
    ForwardGap(s.session_type, LastSamplingInterval(s) + 1)
        >= cfg.gap_allow_sampling_s + cfg.sampling_end_s

\* The end of the last sampling interval of returned session s.
LastSamplingInstant(s) == frames[LastSamplingInterval(s) + 1].ts_s

\* C10 (as claimed): for every configuration, a session followed by a gap
\* that grows to gap_allow_sampling_s + sampling_end_s is emitted with end_ts
\* = last sampling instant + gap_allow_sampling_s.
C10_EndAtGapAllow ==
    \A i \in 1..Len(sessions) :
        FollowedByLongGap(sessions[i])
            => sessions[i].end_ts_s
                  = LastSamplingInstant(sessions[i]) + cfg.gap_allow_sampling_s

\* C10 (amended): a session followed by a gap that grows to
\* gap_allow_sampling_s + sampling_end_s is emitted with end_ts = last
\* sampling instant + max(sampling_end_s, gap_allow_sampling_s), not the
\* timestamp at which it was closed; that is the instant at which the gap
\* reached gap_allow_sampling_s exactly when sampling_end_s <=
\* gap_allow_sampling_s.
C10_EndAtEffectiveGapEnd ==
    \A i \in 1..Len(sessions) :
        FollowedByLongGap(sessions[i])
            => /\ sessions[i].end_ts_s
                     = LastSamplingInstant(sessions[i]) + GapThreshold
               /\ (sessions[i].end_ts_s
                     = LastSamplingInstant(sessions[i]) + cfg.gap_allow_sampling_s)
                  <=> cfg.sampling_end_s <= cfg.gap_allow_sampling_s

\* C10 witness: with sampling_end_s <= gap_allow_sampling_s a session was
\* closed inside the loop by a long gap and ends before the end of the
\* interval that closed it.
C10_Witness ==
    /\ pc = "loop"
    /\ cfg.sampling_end_s <= cfg.gap_allow_sampling_s
    /\ cfg.sampling_end_s > 0
    /\ Len(sessions) >= 1
    /\ FollowedByLongGap(sessions[1])
    /\ sessions[1].end_ts_s = LastSamplingInstant(sessions[1]) + cfg.gap_allow_sampling_s
    /\ sessions[1].end_ts_s < frames[sessions[1].end_frame_idx + 2].ts_s

\* C11 (as claimed): a session that is confirmed and not yet closed when the
\* frame sequence ends is emitted with end_ts equal to the timestamp of the
\* last frame, for every sampling_end_s and gap_allow_sampling_s.
C11_OpenSessionEndsAtLastFrame ==
    (pc = "done" /\ closed_at_end)
        => sessions[Len(sessions)].end_ts_s = LastTs

(***************************************************************************)
(* Claims about the report (checked under SpecReportAlarms and             *)
(* SpecReportPeople).                                                      *)
(***************************************************************************)
\* Interval k lies inside returned session x.
IntervalInSession(k, x) ==
    /\ IntervalDt(k) > 0
    /\ x.start_ts_s <= frames[k].ts_s
    /\ frames[k + 1].ts_s <= x.end_ts_s

\* The deviation type of a people count.
DeviationType(people) == IF people < expected_people THEN "UNDER" ELSE "OVER"

\* C12 (as claimed): the crew_intervals of the report hold a CrewInterval of
\* type UNDER/OVER for each staffing deviation inside a session that lasts
\* longer than people_grace_s; in particular for one interval of the input
\* that lies inside a session, has a people count other than 2 and is longer
\* than people_grace_s.
C12_CrewIntervalsReported ==
    pc = "reported" =>
        \A i \in 1..Len(report.sessions), k \in 1..NIntervals :
            (/\ IntervalInSession(k, report.sessions[i])
             /\ frames[k].people_count # expected_people
             /\ IntervalDt(k) > cfg.people_grace_s)
            => \E j \in 1..Len(report.crew_intervals) :
                  /\ report.crew_intervals[j].session_id
                        = report.sessions[i].session_id
                  /\ report.crew_intervals[j].deviation_type
                        = DeviationType(frames[k].people_count)
                  /\ report.crew_intervals[j].start_ts_s <= frames[k].ts_s
                  /\ report.crew_intervals[j].end_ts_s >= frames[k + 1].ts_s

\* The number of qualifying runs among the intervals from k on: run is the
\* accumulated qualifying time, gap the tolerated gap and counted whether
\* the run has already reached unblocked_alarm_s.
RECURSIVE QualifyingRunsFrom(_, _, _, _)
QualifyingRunsFrom(k, run, gap, counted) ==
    IF k > NIntervals THEN 0
    ELSE IF IntervalDt(k) <= 0 THEN QualifyingRunsFrom(k + 1, run, gap, counted)
    ELSE IF UnblockedCond(frames[k])
    THEN LET r == run + IntervalDt(k)
         IN  IF ~counted /\ r >= cfg.unblocked_alarm_s
             THEN 1 + QualifyingRunsFrom(k + 1, r, 0, TRUE)
             ELSE QualifyingRunsFrom(k + 1, r, 0, counted)
    ELSE IF gap + IntervalDt(k) > cfg.gap_allow_unblocked_s
    THEN QualifyingRunsFrom(k + 1, 0, 0, FALSE)
    ELSE QualifyingRunsFrom(k + 1, run, gap + IntervalDt(k), counted)

\* The positions of the alarms of a type in the report.
AlarmsOfType(type) ==
    {i \in 1..Len(report.alarms) : report.alarms[i].alarm_type = type}

\* C13 (as claimed): the report holds exactly one UNBLOCKED_INSERTION alarm
\* per qualifying run; k qualifying runs separated by gaps longer than
\* gap_allow_unblocked_s yield k alarms.
C13_OneAlarmPerQualifyingRun ==
    pc = "reported" =>
        Cardinality(AlarmsOfType("UNBLOCKED_INSERTION"))
            = QualifyingRunsFrom(1, 0, 0, FALSE)

\* The positions of the SAMPLING_TOO_SHORT alarms of returned session x.
TooShortAlarms(x) ==
    {i \in AlarmsOfType("SAMPLING_TOO_SHORT") :
        report.alarms[i].session_id = x.session_id}

\* C15: with enable_min_sampling_duration the report holds exactly one
\* SAMPLING_TOO_SHORT alarm, carrying the session's id and time range, for
\* every session shorter than sampling_min_s and none for the other
\* sessions; without the flag it holds no SAMPLING_TOO_SHORT alarm.
C15_MinDurationAlarm ==
    pc = "reported" =>
        /\ \A i \in 1..Len(report.sessions) :
              LET x == report.sessions[i]
              IN  IF cfg.enable_min_sampling_duration
                     /\ x.end_ts_s - x.start_ts_s < cfg.sampling_min_s
                  THEN /\ Cardinality(TooShortAlarms(x)) = 1
                       /\ \A a \in TooShortAlarms(x) :
                             /\ report.alarms[a].start_ts_s = x.start_ts_s
                             /\ report.alarms[a].end_ts_s = x.end_ts_s
                  ELSE TooShortAlarms(x) = {}
        /\ \A a \in AlarmsOfType("SAMPLING_TOO_SHORT") :
              \E i \in 1..Len(report.sessions) :
                  report.alarms[a].session_id = report.sessions[i].session_id
        /\ ~cfg.enable_min_sampling_duration
              => AlarmsOfType("SAMPLING_TOO_SHORT") = {}

\* C15 witness: with the rule enabled a report holds a session shorter than
\* sampling_min_s, with its alarm, and a session of at least sampling_min_s.
C15_Witness ==
    /\ pc = "reported"
    /\ cfg.enable_min_sampling_duration
    /\ \E i, j \in 1..Len(report.sessions) :
          /\ report.sessions[i].duration_s < cfg.sampling_min_s
          /\ report.sessions[j].duration_s >= cfg.sampling_min_s
          /\ TooShortAlarms(report.sessions[i]) # {}

\* C16: the alarm ids of a report are 1..n in the order of the list, the
\* session-based alarms come first, in session order, and the
\* unblocked-insertion alarm after them; no id is shared and none is 0.
C16_AlarmIds ==
    pc = "reported" =>
        /\ \A i \in 1..Len(report.alarms) : report.alarms[i].alarm_id = i
        /\ \A i, j \in 1..Len(report.alarms) :
              i < j =>
                 /\ report.alarms[i].alarm_type = "SAMPLING_TOO_SHORT"
                 /\ report.alarms[j].alarm_type = "SAMPLING_TOO_SHORT"
                       => report.alarms[i].session_id < report.alarms[j].session_id
        /\ \A i, j \in 1..Len(report.alarms) :
              i # j => report.alarms[i].alarm_id # report.alarms[j].alarm_id
        /\ \A i \in 1..Len(report.alarms) : report.alarms[i].alarm_id # 0

\* C16 witness: a report with two session-based alarms and the
\* unblocked-insertion alarm.
C16_Witness ==
    /\ pc = "reported"
    /\ Cardinality(AlarmsOfType("SAMPLING_TOO_SHORT")) >= 2
    /\ AlarmsOfType("UNBLOCKED_INSERTION") # {}

\* The two session types.
SamplingTypes == {"BLOCKED_SAMPLING", "UNBLOCKED_SAMPLING"}

\* The intervals a..b are a maximal run of intervals of type T (intervals of
\* length 0, which the builder skips, aside).
MaximalRun(T, a, b) ==
    /\ a <= b
    /\ IsOfType(T, a)
    /\ IsOfType(T, b)
    /\ \A k \in a..b : IntervalDt(k) = 0 \/ IntervalType(k) = T
    /\ \A k \in 1..(a - 1) :
          (IntervalDt(k) > 0 /\ \A n \in (k + 1)..(a - 1) : IntervalDt(n) = 0)
              => IntervalType(k) # T
    /\ \A k \in (b + 1)..NIntervals :
          (IntervalDt(k) > 0 /\ \A n \in (b + 1)..(k - 1) : IntervalDt(n) = 0)
              => IntervalType(k) # T

\* C38 (checked under SpecSessions): a sampling run is never absorbed into
\* a session of the other type.  For every time-ordered frame sequence, each
\* maximal run of intervals of one session type that lasts at least
\* sampling_start_s is covered by a returned session of that type, and by no
\* session of the other type.
C38_RunNotAbsorbed ==
    pc = "done" =>
        \A T \in SamplingTypes : \A a, b \in 1..NIntervals :
            (/\ MaximalRun(T, a, b)
             /\ frames[b + 1].ts_s - frames[a].ts_s >= cfg.sampling_start_s)
                => /\ \E i \in 1..Len(sessions) :
                         /\ sessions[i].session_type = T
                         /\ sessions[i].start_ts_s <= frames[a].ts_s
                         /\ sessions[i].end_ts_s >= frames[b + 1].ts_s
                   /\ \A i \in 1..Len(sessions) :
                         (/\ sessions[i].start_ts_s <= frames[a].ts_s
                          /\ sessions[i].end_ts_s >= frames[b + 1].ts_s)
                             => sessions[i].session_type = T

\* C39 as stated (checked under SpecSessionsAnyConfig): minimum session
\* length.  For every time-ordered frame sequence and every configuration,
\* each session returned has duration_s >= sampling_start_s.
C39_MinimumSessionLength ==
    \A i \in 1..Len(sessions) :
        sessions[i].duration_s >= cfg.sampling_start_s

\* C39, amended (checked under SpecSessionsAnyConfig): for every
\* time-ordered frame sequence and every configuration whose
\* effective_gap_end is not negative, each session returned has
\* duration_s >= sampling_start_s, and its end is not before the instant
\* sampling_start_s after its start.
C39_MinimumLengthNonNegativeGapEnd ==
    Max(cfg.sampling_end_s, cfg.gap_allow_sampling_s) >= 0 =>
        \A i \in 1..Len(sessions) :
            /\ sessions[i].duration_s >= cfg.sampling_start_s
            /\ sessions[i].end_ts_s >= sessions[i].start_ts_s + cfg.sampling_start_s

\* C39 witness: under a configuration whose effective_gap_end is not
\* negative, a session closed by a gap was returned with exactly the minimum
\* length, its end moved back to before the end of the closing interval.
C39_Witness ==
    /\ pc = "done"
    /\ Max(cfg.sampling_end_s, cfg.gap_allow_sampling_s) >= 0
    /\ \E i \in 1..Len(sessions) : \E k \in 1..(Len(frames) - 1) :
          /\ i < Len(sessions)
          /\ sessions[i].duration_s = cfg.sampling_start_s
          /\ frames[k].frame_idx = sessions[i].end_frame_idx
          /\ sessions[i].end_ts_s < frames[k + 1].ts_s

\* Interval k has a positive length and satisfies the condition of the
\* unblocked-insertion alarm.
Qualifying(k) == IntervalDt(k) > 0 /\ UnblockedCond(frames[k])

\* The time of the intervals i..j, of the qualifying ones if qualifying and
\* of the other ones if not.
RECURSIVE TimeIn(_, _, _)
TimeIn(i, j, qualifying) ==
    IF i > j THEN 0
    ELSE (IF IntervalDt(i) > 0 /\ (Qualifying(i) <=> qualifying)
          THEN IntervalDt(i) ELSE 0)
         + TimeIn(i + 1, j, qualifying)

\* The intervals i..j form a gap: none of them qualifies.
GapStretch(i, j) == i <= j /\ \A m \in i..j : ~Qualifying(m)

\* A run begins with interval s: s qualifies and is the first qualifying
\* interval of the input or follows a gap longer than gap_allow_unblocked_s.
RunStartsAt(s) ==
    /\ Qualifying(s)
    /\ \/ \A m \in 1..(s - 1) : ~Qualifying(m)
       \/ \E p \in 1..(s - 1) :
             /\ Qualifying(p)
             /\ GapStretch(p + 1, s - 1)
             /\ TimeIn(p + 1, s - 1, FALSE) > cfg.gap_allow_unblocked_s

\* Every gap among the intervals s..k is at most gap_allow_unblocked_s long.
GapsTolerated(s, k) ==
    \A i, j \in s..k :
        GapStretch(i, j) => TimeIn(i, j, FALSE) <= cfg.gap_allow_unblocked_s

\* The run that begins with interval s reaches unblocked_alarm_s within
\* interval k.
CrossesIn(s, k) ==
    /\ s <= k
    /\ RunStartsAt(s)
    /\ GapsTolerated(s, k)
    /\ Qualifying(k)
    /\ TimeIn(s, k - 1, TRUE) < cfg.unblocked_alarm_s
    /\ TimeIn(s, k, TRUE) >= cfg.unblocked_alarm_s

\* C31: the UNBLOCKED_INSERTION alarm of a report belongs to the first run
\* that reaches unblocked_alarm_s of qualifying time, the time of gaps of at
\* most gap_allow_unblocked_s inside the run not being counted and a longer
\* gap ending the run: its start_ts is the start of the run's first
\* qualifying interval, and its trigger_ts, which is also its end_ts, is the
\* instant of the crossing interval at which the qualifying time of the run
\* equals unblocked_alarm_s.
C31_UnblockedTrigger ==
    pc = "reported" =>
        \A a \in AlarmsOfType("UNBLOCKED_INSERTION") :
            \E s, k \in 1..NIntervals :
                /\ CrossesIn(s, k)
                /\ \A s2, k2 \in 1..NIntervals : CrossesIn(s2, k2) => k <= k2
                /\ report.alarms[a].start_ts_s = frames[s].ts_s
                /\ report.alarms[a].trigger_ts_s
                      = frames[k].ts_s
                           + (cfg.unblocked_alarm_s - TimeIn(s, k - 1, TRUE))
                /\ report.alarms[a].trigger_ts_s > frames[k].ts_s
                /\ report.alarms[a].trigger_ts_s <= frames[k + 1].ts_s
                /\ report.alarms[a].end_ts_s = report.alarms[a].trigger_ts_s

\* C31 witness: a report whose alarm belongs to a run that holds a tolerated
\* gap and is triggered before the end of the crossing interval.
C31_Witness ==
    /\ pc = "reported"
    /\ \E a \in AlarmsOfType("UNBLOCKED_INSERTION") :
          \E s, k \in 1..NIntervals :
              /\ CrossesIn(s, k)
              /\ report.alarms[a].start_ts_s = frames[s].ts_s
              /\ \E g \in s..k : ~Qualifying(g) /\ IntervalDt(g) > 0
              /\ report.alarms[a].trigger_ts_s < frames[k + 1].ts_s
              /\ report.alarms[a].trigger_ts_s > frames[k].ts_s

\* The deviation of the people count of a frame from expected_people.
DeviationOf(frame) ==
    IF frame.people_count = expected_people THEN None
    ELSE IF frame.people_count < expected_people THEN "UNDER" ELSE "OVER"

\* Interval k has a positive length and holds instants of the open time
\* range (from, to).
Overlaps(k, from, to) ==
    /\ IntervalDt(k) > 0
    /\ frames[k].ts_s < to
    /\ frames[k + 1].ts_s > from

\* C32 (checked under SpecCrew): every CrewInterval that
\* _build_crew_for_session returns for a session lies within the session's
\* [start_ts, end_ts]; it is of type UNDER or OVER, every input interval it
\* covers has that deviation, and it is longer than people_grace_s; it ends
\* where the deviation changes or the count returns to expected_people: the
\* input interval that precedes it within the session, and the one that
\* follows it within the session, have another deviation or none.
C32_CrewIntervalsWellFormed ==
    pc = "crew" =>
        \A i \in 1..Len(crew) : \A j \in 1..Len(crew[i].intervals) :
            LET x  == sessions[i]
                ci == crew[i].intervals[j]
            IN  /\ ci.session_id = x.session_id
                /\ x.start_ts_s <= ci.start_ts_s
                /\ ci.start_ts_s <= ci.end_ts_s
                /\ ci.end_ts_s <= x.end_ts_s
                /\ ci.deviation_type \in {"UNDER", "OVER"}
                /\ ci.duration_s = ci.end_ts_s - ci.start_ts_s
                /\ ci.duration_s > cfg.people_grace_s
                /\ \A k \in 1..NIntervals :
                      Overlaps(k, ci.start_ts_s, ci.end_ts_s)
                          => DeviationOf(frames[k]) = ci.deviation_type
                /\ \A k \in 1..NIntervals :
                      (/\ IntervalDt(k) > 0
                       /\ \/ /\ frames[k + 1].ts_s = ci.start_ts_s
                             /\ ci.start_ts_s > x.start_ts_s
                          \/ /\ frames[k].ts_s = ci.end_ts_s
                             /\ ci.end_ts_s < x.end_ts_s)
                          => DeviationOf(frames[k]) # ci.deviation_type

\* C32 witness: a session with an UNDER interval followed at once by an OVER
\* interval that ends with the session, inside an interval of the input.
C32_Witness ==
    /\ pc = "crew"
    /\ \E i \in 1..Len(crew) :
          /\ Len(crew[i].intervals) >= 2
          /\ crew[i].intervals[1].deviation_type = "UNDER"
          /\ crew[i].intervals[2].deviation_type = "OVER"
          /\ crew[i].intervals[1].end_ts_s = crew[i].intervals[2].start_ts_s
          /\ crew[i].intervals[2].end_ts_s = sessions[i].end_ts_s
          /\ \E k \in 1..NIntervals :
                /\ frames[k].ts_s < sessions[i].end_ts_s
                /\ frames[k + 1].ts_s > sessions[i].end_ts_s

\* The people count seen throughout [t, t + stable_s) is X, and the input
\* lasts that long.
PersistsFrom(t, X) ==
    /\ LastTs >= t + stable_s
    /\ \A k \in 1..NIntervals :
          (IntervalDt(k) > 0 /\ frames[k + 1].ts_s > t
                             /\ frames[k].ts_s < t + stable_s)
             => frames[k].people_count = X

\* People count X appears at instant t and not just before it.
FirstAppearedAt(t, X) ==
    /\ \E k \in 1..NIntervals :
          IntervalDt(k) > 0 /\ frames[k].ts_s = t /\ frames[k].people_count = X
    /\ \A k \in 1..NIntervals :
          (IntervalDt(k) > 0 /\ frames[k + 1].ts_s = t)
             => frames[k].people_count # X

\* The current count at instant t: the count the last event confirmed by t
\* changed to, or the count of the first frame.
CurrentCountAt(t) ==
    LET E     == report.people_count_change_events
        since == {i \in 1..Len(E) : E[i].confirmed_ts_s <= t}
    IN  IF since = {} THEN frames[1].people_count
        ELSE E[CHOOSE i \in since : \A j \in since : j <= i].to_count

\* C14: a change event from the current count to a new count is emitted if
\* and only if the new count persists without interruption for the 2 s
\* stability window; change_ts is the instant the new count first appeared
\* and confirmed_ts is change_ts + 2 s; a departure that returns or turns to
\* a third count before 2 s gives no event.
C14_PeopleCountChangeEvents ==
    (pc = "reported" /\ Len(frames) > 0) =>
        LET E == report.people_count_change_events
        IN  /\ \A i \in 1..Len(E) :
                  /\ E[i].confirmed_ts_s = E[i].change_ts_s + stable_s
                  /\ E[i].confirmed_ts_s >= E[i].change_ts_s
                  /\ E[i].from_count = CurrentCountAt(E[i].change_ts_s)
                  /\ E[i].to_count # E[i].from_count
                  /\ FirstAppearedAt(E[i].change_ts_s, E[i].to_count)
                  /\ PersistsFrom(E[i].change_ts_s, E[i].to_count)
            /\ \A k \in 1..NIntervals :
                  (/\ IntervalDt(k) > 0
                   /\ frames[k].people_count # CurrentCountAt(frames[k].ts_s)
                   /\ FirstAppearedAt(frames[k].ts_s, frames[k].people_count)
                   /\ PersistsFrom(frames[k].ts_s, frames[k].people_count))
                  => \E i \in 1..Len(E) :
                        /\ E[i].change_ts_s = frames[k].ts_s
                        /\ E[i].to_count = frames[k].people_count

\* C14 witness: a report with a change event that was confirmed after a
\* shorter departure to a third count that gave no event.
C14_Witness ==
    /\ pc = "reported"
    /\ Len(report.people_count_change_events) = 1
    /\ \E k \in 1..NIntervals :
          /\ IntervalDt(k) > 0
          /\ frames[k + 1].ts_s <= report.people_count_change_events[1].change_ts_s
          /\ frames[k].people_count
                \notin {report.people_count_change_events[1].from_count,
                        report.people_count_change_events[1].to_count}

\* C24: empty input.  build_report on an empty frame sequence runs to its
\* end without an error and returns a report whose presence segments,
\* observation segments, sessions, crew intervals, people-count segments,
\* change events and alarms are all empty, with overall result PASS and no
\* minimum and maximum people count.
C24_EmptyInput ==
    frames = << >> =>
        /\ pc = "loop" => ENABLED BuildSessions_return
        /\ pc = "done" => (sessions = << >> /\ ENABLED BuildReport)
        /\ pc = "reported" =>
              /\ report.presence_segments = << >>
              /\ report.open_no_sampling_segments = << >>
              /\ report.sessions = << >>
              /\ report.crew_intervals = << >>
              /\ report.people_count_segments = << >>
              /\ report.people_count_change_events = << >>
              /\ report.alarms = << >>
              /\ report.overall_result = "PASS"
              /\ report.min_people_count = << >>
              /\ report.max_people_count = << >>

\* C24 witness: the report of an empty frame sequence has been returned.
C24_Witness ==
    /\ frames = << >>
    /\ pc = "reported"
    /\ report.overall_result = "PASS"
    /\ report.people_count_segments = << >>

(***************************************************************************)
(* Claims about the frame scheduler (checked under SpecScheduler).         *)
(***************************************************************************)
\* next_index has just returned sched_out for the latency measured_dt.
Called == sched_pc = "begin" /\ sched_out # NoOutput

\* The call that has just returned was one of the first warmup_frames calls.
InWarmup == before_call.count < before_call.warmup_frames

\* The latencies that call smoothed: the window, or only the measured
\* latency on the call that ends the warm-up and clears the window.
SmoothedWindow ==
    IF before_call.count = before_call.warmup_frames
    THEN <<measured_dt>> ELSE before_call.dt_window

\* smoothed_step = mean(window) x video_fps x target_ratio is the fraction
\* SmoothedNum / SmoothedDen.
SmoothedNum ==
    SumSeq(SmoothedWindow) * before_call.video_fps * before_call.target_ratio

SmoothedDen == Len(SmoothedWindow) * 2

\* r is round(smoothed_step): the nearest integer, the even one of two.
IsRoundedStep(r) ==
    /\ 2 * SmoothedNum - SmoothedDen <= 2 * r * SmoothedDen
    /\ 2 * r * SmoothedDen <= 2 * SmoothedNum + SmoothedDen
    /\ (2 * r * SmoothedDen # 2 * SmoothedNum /\ r % 2 # 0)
          => /\ 2 * SmoothedNum - SmoothedDen < 2 * r * SmoothedDen
             /\ 2 * r * SmoothedDen < 2 * SmoothedNum + SmoothedDen

\* The values round(smoothed_step) can take.
RoundedSteps == 0..(MaxLatency * MaxFps + 1)

\* C17 (as claimed): for every constructor configuration each of the first
\* warmup_frames calls to next_index returns step = 1.
C17_WarmupStepIsOne ==
    (Called /\ InWarmup) => sched_out.step = 1

UnclampedIs(u) == IF InWarmup THEN u = 1 ELSE IsRoundedStep(u)

\* C19 (as claimed): on every call capped_flag is set exactly when the
\* unclamped step lay below min_step or above max_allowed_step, and is
\* clear when it was within the range.
C19_CappedIffClamped ==
    Called =>
        \E u \in RoundedSteps :
            /\ UnclampedIs(u)
            /\ sched_out.capped = 1
                  <=> (u < before_call.min_step
                          \/ u > before_call.max_allowed_step)

C22_UnknownNeverSafe ==
    (/\ norm_args.caller # None
     /\ norm_args.state_raw \notin FIVE_STATES
     /\ norm_args.state_5class \notin FIVE_STATES)
        => norm_result[1] = "OPEN_DANGER"

\* The moving average the last adjustment used.
Ema == rt_ratio_ema[1]
EmaBelow == Ema.num < ratio_low * Ema.den
EmaAbove == Ema.num > ratio_high * Ema.den

\* C30 (as claimed): on every adjustment step, for every initial
\* target_ratio, a smoothed ratio below 0.9 never decreases target_ratio (it
\* becomes min(2.0, target_ratio + 0.05)), a ratio above 1.1 never increases
\* it (it becomes max(0.5, target_ratio - 0.05)), and a ratio in [0.9, 1.1]
\* leaves it unchanged.
C30_FeedbackDirection ==
    adjusted =>
        /\ EmaBelow => (/\ target_ratio >= target_before
                        /\ target_ratio = Min(target_max, target_before + target_step))
        /\ EmaAbove => (/\ target_ratio <= target_before
                        /\ target_ratio = Max(target_min, target_before - target_step))
        /\ (~EmaBelow /\ ~EmaAbove) => target_ratio = target_before

\* The frames of the queue are in the order in which they were read.
QueueInReadOrder ==
    \A k \in 1..(Len(frame_queue) - 1) : frame_queue[k] < frame_queue[k + 1]

\* The reader is through with the frame it read last.
ItemHandled == reader_pc \in {"grab", "done"} /\ item # << >>

\* C21 (as claimed): under every interleaving the queue never holds more
\* than max(2, max_allowed_step + 2) frames, no frame read is lost by the
\* reader's own put, and whenever the reader's put found the queue full the
\* reader discarded the frame that was then the oldest of the queue before
\* it enqueued the new one.
C21_DropOldestWhenFull ==
    /\ Len(frame_queue) <= Max(2, worker_max_step + 2)
    /\ lost = {}
    /\ (reader_pc \notin {"done", "none"}) => ENABLED Reader
    /\ ItemHandled => reader_discarded = full_head

\* C21 (amended): under every interleaving the queue never holds more than
\* max(2, max_allowed_step + 2) frames and stays in read order, the reader
\* is never blocked, no frame read is lost by the reader's own put, and
\* whenever the reader's put found the queue full the reader then removed
\* the frame that was the oldest of the queue at the moment of the removal:
\* the frame that was oldest when the queue was found full, a later one if
\* the inference loop took frames in between, none if it emptied the queue.
C21_DropOldestAtRemoval ==
    /\ Len(frame_queue) <= Max(2, worker_max_step + 2)
    /\ QueueInReadOrder
    /\ lost = {}
    /\ (reader_pc \notin {"done", "none"}) => ENABLED Reader
    /\ ItemHandled =>
          /\ reader_discarded = head_at_discard
          /\ full_head = << >> => reader_discarded = << >>
          /\ reader_discarded # << >> =>
                /\ reader_discarded[1] >= full_head[1]
                /\ \A k \in 1..Len(frame_queue) :
                      frame_queue[k] > reader_discarded[1]

\* C21 witness: the reader found the queue full, discarded the frame that
\* was its oldest, and the frame it had read is the newest of the queue.
C21_Witness ==
    /\ ItemHandled
    /\ full_head # << >>
    /\ reader_discarded = full_head
    /\ Len(frame_queue) = queue_size
    /\ frame_queue[Len(frame_queue)] = item[1]

\* C33: no frame is stranded at shutdown.  Under every interleaving of the
\* reader and the inference loop, once the inference loop has ended by its
\* break (no interruption was requested) the reader has finished and the
\* queue is empty: every frame the reader enqueued was processed or dropped
\* before finished("eof") is emitted.
C33_NoFrameStranded ==
    loop_exit = "eof" =>
        /\ reader_pc = "done"
        /\ reader_done
        /\ frame_queue = << >>

\* The positions of a signal among the signals emitted.
Emissions(signal) == {i \in 1..Len(emitted) : emitted[i] = signal}

\* C34: error and normal completion are mutually exclusive.  In every run
\* of the worker at most one of error and finished("eof") is emitted; when
\* the reader fails to read the first frame and emits error, finished is
\* not emitted afterwards.
C34_ErrorExcludesFinished ==
    Emissions("error") = {} \/ Emissions("finished") = {}

\* C35: frame order is preserved through the queue.  Under every
\* interleaving of the reader's puts and removals and of the inference
\* loop's gets and drops, the frames handed to inference have strictly
\* increasing read indices.
C35_FramesInReadOrder ==
    \A i, j \in 1..Len(inferred) : i < j => inferred[i] < inferred[j]

\* C35 witness: the reader has removed a frame from a full queue, the
\* inference loop has dropped frames, and three frames have been handed to
\* inference, not all of them consecutive.
C35_Witness ==
    /\ Len(inferred) >= 3
    /\ reader_discarded # << >>
    /\ \E i \in 1..(Len(inferred) - 1) : inferred[i + 1] > inferred[i] + 1
    /\ \E i \in 1..(Len(inferred) - 1) : inferred[i + 1] = inferred[i] + 1

\* C37 (checked under SpecClassify): live and offline classification
\* agree.  For every FrameOutput, whatever its stable tag sets, the session
\* type the builder derives from it is BLOCKED_SAMPLING exactly when
\* StateEngine5._classify yields OPEN_NORMAL_SAMPLING on the union of the
\* tags, UNBLOCKED_SAMPLING exactly when it yields OPEN_DANGER, and None in
\* every other case.
C37_LiveOfflineAgree ==
    \A i \in 1..Len(frame_outputs) :
        LET tags    == frame_outputs[i].metrics.tags_c
                          \cup frame_outputs[i].metrics.tags_d
            live    == StateEngine5_classify(tags)[1]
            offline == SessionType(FrameToSignal(frame_outputs[i], fps_assume))
        IN  /\ offline = "BLOCKED_SAMPLING" <=> live = "OPEN_NORMAL_SAMPLING"
            /\ offline = "UNBLOCKED_SAMPLING" <=> live = "OPEN_DANGER"
            /\ offline = None
                  <=> live \notin {"OPEN_NORMAL_SAMPLING", "OPEN_DANGER"}

\* C40 (checked under SpecPipeline): the builder's input is time-ordered.
\* For every sequence of container positions the timestamps of the
\* _FrameSignals that build_report derives from the outputs of
\* iter_frame_outputs are non-decreasing in frame order.
C40_BuilderInputTimeOrdered ==
    LET fs == FramesOf(frame_outputs, fps_assume)
    IN  \A i \in 1..(Len(fs) - 1) : fs[i].ts_s <= fs[i + 1].ts_s

(***************************************************************************)
(* Specifications.                                                         *)
(***************************************************************************)
TagsIdle == SmootherInit({"SamplingCloseSmoother"}, 1, 1, {{}})
EngineIdle == EngineInit({1})
PeopleIdle ==
    PeopleInit({[window_size |-> DefaultWindowSize, max_id_age |-> 1,
                 active_id_age |-> 0,
                 expected_people |-> DefaultExpectedPeople,
                 min_track_hits |-> 1]}, 0)
BuilderIdle ==
    BuilderInit({[sampling_start_s |-> 1, sampling_end_s |-> 0,
                  gap_allow_sampling_s |-> 1]}, {})
SchedulerIdle ==
    SchedulerInit({[video_fps |-> 1, warmup_frames |-> 0, target_ratio |-> 2,
                    max_allowed_step |-> 1, min_step |-> 1]}, {0})

NormalizeIdle == NormalizeInit
FeedbackIdle == FeedbackInit({1}, {20})
QueueIdle == QueueInit({1}, {0})
PipelineIdle == PipelineInit({1}, {<< >>}, {<< >>}, 0)
WorkerIdle == NormalizeIdle /\ FeedbackIdle /\ QueueIdle /\ PipelineIdle

InitTags ==
    /\ SmootherInit({"SamplingCloseSmoother", "BlockingSmoother"}, 1, MaxThreshold,
                    SUBSET TagsD)
    /\ EngineIdle
    /\ PeopleIdle
    /\ BuilderIdle
    /\ SchedulerIdle
    /\ WorkerIdle

NextTags ==
    \/ \E raw_tags \in SUBSET TagsC :
          SamplingCloseSmoother_update(raw_tags)
          /\ UNCHANGED <<engineVars, peopleVars, builderVars, schedVars, workerVars>>
    \/ \E raw_tags \in SUBSET TagsD :
          BlockingSmoother_update(raw_tags)
          /\ UNCHANGED <<engineVars, peopleVars, builderVars, schedVars, workerVars>>

SpecTags == InitTags /\ [][NextTags]_vars

\* The force_one_of sets that name a tag for which the blocking smoother has
\* no thresholds.
MisconfiguredForces == {force \in SUBSET AllTags : ~(force \subseteq TagsD)}

\* A BlockingSmoother constructed with such a force_one_of: __init__ stores
\* the configuration as it is.
InitTagsMisconfigured ==
    /\ SmootherInit({"BlockingSmoother"}, 1, MaxThreshold, MisconfiguredForces)
    /\ EngineIdle
    /\ PeopleIdle
    /\ BuilderIdle
    /\ SchedulerIdle
    /\ WorkerIdle

NextTagsMisconfigured ==
    \E raw_tags \in SUBSET TagsD :
        BlockingSmoother_update(raw_tags)
        /\ UNCHANGED <<engineVars, peopleVars, builderVars, schedVars, workerVars>>

SpecTagsMisconfigured == InitTagsMisconfigured /\ [][NextTagsMisconfigured]_vars

\* The blocking smoother of AppConfig: tags_d_smoother.
InitTagsDefault ==
    /\ smoother_class = "BlockingSmoother"
    /\ thresholds = DefaultBlockingThresholds
    /\ force_one_of = TagsD
    /\ SmootherInit({"BlockingSmoother"}, 3, 6, {TagsD})
    /\ EngineIdle
    /\ PeopleIdle
    /\ BuilderIdle
    /\ SchedulerIdle
    /\ WorkerIdle

NextTagsDefault ==
    \E raw_tags \in SUBSET TagsD :
        BlockingSmoother_update(raw_tags)
        /\ UNCHANGED <<engineVars, peopleVars, builderVars, schedVars, workerVars>>

SpecTagsDefault == InitTagsDefault /\ [][NextTagsDefault]_vars

InitEngine ==
    /\ TagsIdle
    /\ EngineInit(1..MaxDebounceK)
    /\ PeopleIdle
    /\ BuilderIdle
    /\ SchedulerIdle
    /\ WorkerIdle

NextEngine ==
    \E tags \in SUBSET AllTags :
        StateEngine5_compute(tags) /\ UNCHANGED <<tagVars, peopleVars, builderVars, schedVars, workerVars>>

SpecEngine == InitEngine /\ [][NextEngine]_vars

\* The signals of the frames given to the session builder: a blocked and an
\* unblocked sampling frame and an idle open port.
SessionSignals ==
    {sig \in Signals :
        /\ sig.people_count = DefaultExpectedPeople
        /\ sig.open_state
        /\ sig.blocking_state # "unknown"
        /\ ~sig.sampling_present => sig.blocking_state = "blocking"}

InitPeople ==
    /\ TagsIdle
    /\ EngineIdle
    /\ PeopleInit(PeopleConfigs, MaxPeopleFrames)
    /\ BuilderIdle
    /\ SchedulerIdle
    /\ WorkerIdle

NextPeople ==
    \E active \in SUBSET TrackIds :
        PeopleSmoother_update(active)
        /\ UNCHANGED <<tagVars, engineVars, builderVars, schedVars, workerVars>>

SpecPeople == InitPeople /\ [][NextPeople]_vars

\* The active ids of the frames a smoother has seen before it is observed: a
\* run of frames with one set of ids followed by a run with another.
WarmInputs == {{}, {1}, {1, 2}}
WarmPrefixes ==
    {[i \in 1..WarmFrames |-> IF i <= a THEN x ELSE y] :
        a \in 0..WarmFrames, x \in WarmInputs, y \in WarmInputs}

\* A smoother that counts the ids of the frame itself.
WarmConfigs ==
    {[window_size |-> DefaultWindowSize, max_id_age |-> 1, active_id_age |-> 0,
      expected_people |-> DefaultExpectedPeople, min_track_hits |-> 1]}

InitPeopleWarm ==
    /\ TagsIdle
    /\ EngineIdle
    /\ PeopleInitAfter(WarmConfigs, WarmPrefixes, MaxLateFrames)
    /\ BuilderIdle
    /\ SchedulerIdle
    /\ WorkerIdle

NextPeopleWarm ==
    \E active \in SUBSET TrackIds :
        PeopleSmoother_update(active)
        /\ UNCHANGED <<tagVars, engineVars, builderVars, schedVars, workerVars>>

SpecPeopleWarm == InitPeopleWarm /\ [][NextPeopleWarm]_vars

\* The signals of the frames of the sessions whose crew is examined: blocked
\* sampling and an idle open port, with one person too few, the expected
\* people and one person too many.
CrewSessionSignals ==
    {sig \in Signals :
        /\ sig.open_state
        /\ sig.blocking_state = "blocking"
        /\ sig.people_count \in (expected_people - 1)..(expected_people + 1)}

\* The time between two consecutive frames of those sessions.
CrewDts == {0, 1, 2}

\* The configurations of those sessions.
CrewConfigs ==
    [sampling_start_s : {1}, sampling_end_s : {0}, gap_allow_sampling_s : {1},
     people_grace_s : 0..MaxPeopleGrace,
     unblocked_alarm_s : {1}, gap_allow_unblocked_s : {0},
     enable_min_sampling_duration : {FALSE},
     sampling_min_s : {MaxSamplingMin}]

InitCrew ==
    /\ TagsIdle
    /\ EngineIdle
    /\ PeopleIdle
    /\ BuilderInit(CrewConfigs, CrewSessionSignals)
    /\ SchedulerIdle
    /\ WorkerIdle

NextCrew ==
    \/ \E dt \in CrewDts, sig \in CrewSessionSignals :
          BuildSessions_iteration(dt, sig) /\ UNCHANGED <<tagVars, engineVars, peopleVars, schedVars, workerVars>>
    \/ BuildSessions_return /\ UNCHANGED <<tagVars, engineVars, peopleVars, schedVars, workerVars>>
    \/ BuildCrewForSessions /\ UNCHANGED <<tagVars, engineVars, peopleVars, schedVars, workerVars>>

SpecCrew == InitCrew /\ [][NextCrew]_vars

InitSessions ==
    /\ TagsIdle
    /\ EngineIdle
    /\ PeopleIdle
    /\ BuilderInit(ReportConfigs, SessionSignals)
    /\ SchedulerIdle
    /\ WorkerIdle

NextSessions ==
    \/ \E dt \in 0..MaxDt, sig \in SessionSignals :
          BuildSessions_iteration(dt, sig) /\ UNCHANGED <<tagVars, engineVars, peopleVars, schedVars, workerVars>>
    \/ BuildSessions_return /\ UNCHANGED <<tagVars, engineVars, peopleVars, schedVars, workerVars>>

SpecSessions == InitSessions /\ [][NextSessions]_vars

\* The configurations argparse accepts for the session builder: the
\* tolerances are floats of either sign.
AnyReportConfigs ==
    [sampling_start_s : 1..MaxSamplingStart,
     sampling_end_s : -1..1,
     gap_allow_sampling_s : -1..1]

InitSessionsAnyConfig ==
    /\ TagsIdle
    /\ EngineIdle
    /\ PeopleIdle
    /\ BuilderInit(AnyReportConfigs, SessionSignals)
    /\ SchedulerIdle
    /\ WorkerIdle

SpecSessionsAnyConfig == InitSessionsAnyConfig /\ [][NextSessions]_vars

\* The configurations of the reports whose alarms are examined: sessions
\* are confirmed after one tick and closed by any longer gap.
AlarmReportConfigs ==
    [sampling_start_s : {1}, sampling_end_s : {0}, gap_allow_sampling_s : {1},
     people_grace_s : {1},
     unblocked_alarm_s : 1..MaxUnblockedAlarm,
     gap_allow_unblocked_s : 0..MaxGapAllowUnblocked,
     enable_min_sampling_duration : BOOLEAN,
     sampling_min_s : {MaxSamplingMin}]

InitReportAlarms ==
    /\ TagsIdle
    /\ EngineIdle
    /\ PeopleIdle
    /\ BuilderInit(AlarmReportConfigs, SessionSignals)
    /\ SchedulerIdle
    /\ WorkerIdle

NextReportAlarms ==
    \/ \E dt \in 0..MaxDt, sig \in SessionSignals :
          BuildSessions_iteration(dt, sig) /\ UNCHANGED <<tagVars, engineVars, peopleVars, schedVars, workerVars>>
    \/ BuildSessions_return /\ UNCHANGED <<tagVars, engineVars, peopleVars, schedVars, workerVars>>
    \/ BuildReport /\ UNCHANGED <<tagVars, engineVars, peopleVars, schedVars, workerVars>>

SpecReportAlarms == InitReportAlarms /\ [][NextReportAlarms]_vars

\* The signals of the frames of the reports whose people counts are
\* examined: blocked sampling with every people count.
CrewSignals ==
    {sig \in Signals :
        /\ sig.open_state
        /\ sig.sampling_present
        /\ sig.blocking_state = "blocking"}

\* The configurations of those reports.
CrewReportConfigs ==
    [sampling_start_s : {1}, sampling_end_s : {0}, gap_allow_sampling_s : {1},
     people_grace_s : 1..MaxPeopleGrace,
     unblocked_alarm_s : {1}, gap_allow_unblocked_s : {0},
     enable_min_sampling_duration : {FALSE},
     sampling_min_s : {MaxSamplingMin}]

InitReportPeople ==
    /\ TagsIdle
    /\ EngineIdle
    /\ PeopleIdle
    /\ BuilderInit(CrewReportConfigs, CrewSignals)
    /\ SchedulerIdle
    /\ WorkerIdle

NextReportPeople ==
    \/ \E dt \in 0..MaxDt, sig \in CrewSignals :
          BuildSessions_iteration(dt, sig) /\ UNCHANGED <<tagVars, engineVars, peopleVars, schedVars, workerVars>>
    \/ BuildSessions_return /\ UNCHANGED <<tagVars, engineVars, peopleVars, schedVars, workerVars>>
    \/ BuildReport /\ UNCHANGED <<tagVars, engineVars, peopleVars, schedVars, workerVars>>

SpecReportPeople == InitReportPeople /\ [][NextReportPeople]_vars

InitScheduler ==
    /\ TagsIdle
    /\ EngineIdle
    /\ PeopleIdle
    /\ BuilderIdle
    /\ SchedulerInit(SchedulerArgs, {0, MaxTotalFrames})
    /\ WorkerIdle

NextScheduler ==
    \/ \E dt \in 0..MaxLatency :
          FrameScheduler_end(dt)
          /\ UNCHANGED <<tagVars, engineVars, peopleVars, builderVars, workerVars>>
    \/ FrameScheduler_next_index
          /\ UNCHANGED <<tagVars, engineVars, peopleVars, builderVars, workerVars>>

SpecScheduler == InitScheduler /\ [][NextScheduler]_vars

InitNormalize ==
    /\ TagsIdle
    /\ EngineIdle
    /\ PeopleIdle
    /\ BuilderIdle
    /\ SchedulerIdle
    /\ NormalizeInit
    /\ FeedbackIdle
    /\ QueueIdle
    /\ PipelineIdle

NextNormalize ==
    \/ \E state_raw \in StateValues, state_5class \in StateValues, reason \in Reasons :
          normalize_state_call(state_raw, state_5class, reason)
          /\ UNCHANGED <<tagVars, engineVars, peopleVars, builderVars, schedVars,
                         feedbackVars, queueVars, pipeVars>>
    \/ \E state \in StateValues, reason \in Reasons :
          RealtimeService_event_from_output(state, reason)
          /\ UNCHANGED <<tagVars, engineVars, peopleVars, builderVars, schedVars,
                         feedbackVars, queueVars, pipeVars>>

SpecNormalize == InitNormalize /\ [][NextNormalize]_vars

InitFeedback ==
    /\ TagsIdle
    /\ EngineIdle
    /\ PeopleIdle
    /\ BuilderIdle
    /\ SchedulerIdle
    /\ NormalizeIdle
    /\ FeedbackInit(0..2, InitialTargets)
    /\ QueueIdle
    /\ PipelineIdle

NextFeedback ==
    \E measured \in BOOLEAN, ratio \in Ratios :
        AutoTarget(measured, ratio)
        /\ UNCHANGED <<tagVars, engineVars, peopleVars, builderVars, schedVars,
                       normVars, queueVars, pipeVars>>

SpecFeedback == InitFeedback /\ [][NextFeedback]_vars

InitQueue ==
    /\ TagsIdle
    /\ EngineIdle
    /\ PeopleIdle
    /\ BuilderIdle
    /\ SchedulerIdle
    /\ NormalizeIdle
    /\ FeedbackIdle
    /\ PipelineIdle
    /\ \/ QueueInit(0..MaxWorkerStepArg, 0..MaxVideoFrames)
       \/ OpenFailed

NextQueue ==
    \/ Reader_grab
          /\ UNCHANGED <<tagVars, engineVars, peopleVars, builderVars, schedVars,
                         normVars, feedbackVars, pipeVars>>
    \/ Reader_put
          /\ UNCHANGED <<tagVars, engineVars, peopleVars, builderVars, schedVars,
                         normVars, feedbackVars, pipeVars>>
    \/ Reader_discard
          /\ UNCHANGED <<tagVars, engineVars, peopleVars, builderVars, schedVars,
                         normVars, feedbackVars, pipeVars>>
    \/ Reader_put_again
          /\ UNCHANGED <<tagVars, engineVars, peopleVars, builderVars, schedVars,
                         normVars, feedbackVars, pipeVars>>
    \/ Infer_empty
          /\ UNCHANGED <<tagVars, engineVars, peopleVars, builderVars, schedVars,
                         normVars, feedbackVars, pipeVars>>
    \/ Run_finally
          /\ UNCHANGED <<tagVars, engineVars, peopleVars, builderVars, schedVars,
                         normVars, feedbackVars, pipeVars>>
    \/ Run_finish
          /\ UNCHANGED <<tagVars, engineVars, peopleVars, builderVars, schedVars,
                         normVars, feedbackVars, pipeVars>>
    \/ RequestInterruption
          /\ UNCHANGED <<tagVars, engineVars, peopleVars, builderVars, schedVars,
                         normVars, feedbackVars, pipeVars>>
    \/ \E step \in 1..worker_max_step :
          Infer_get(step)
          /\ UNCHANGED <<tagVars, engineVars, peopleVars, builderVars, schedVars,
                         normVars, feedbackVars, pipeVars>>
    \/ Infer_drop
          /\ UNCHANGED <<tagVars, engineVars, peopleVars, builderVars, schedVars,
                         normVars, feedbackVars, pipeVars>>

SpecQueue == InitQueue /\ [][NextQueue]_vars

\* The people counts of the metrics: None and the counts up to 3.
PipePeople == {<< >>} \cup {<<n>> : n \in 0..3}

\* One frame with every pair of stable tag sets.
InitClassify ==
    /\ TagsIdle
    /\ EngineIdle
    /\ PeopleIdle
    /\ BuilderIdle
    /\ SchedulerIdle
    /\ NormalizeIdle
    /\ FeedbackIdle
    /\ QueueIdle
    /\ PipelineInit({1, 2}, {<< >>}, {<< >>}, 1)

NextClassify ==
    \/ \E msec \in 0..1, tags_c \in SUBSET TagsC, tags_d \in SUBSET TagsD,
          people \in PipePeople :
          Pipeline_frame(msec, tags_c, tags_d, people)
          /\ UNCHANGED <<tagVars, engineVars, peopleVars, builderVars, schedVars,
                         normVars, feedbackVars, queueVars>>
    \/ Pipeline_stop
          /\ UNCHANGED <<tagVars, engineVars, peopleVars, builderVars, schedVars,
                         normVars, feedbackVars, queueVars>>

SpecClassify == InitClassify /\ [][NextClassify]_vars

\* Captures of frames of blocked sampling with every sequence of container
\* positions.
InitPipeline ==
    /\ TagsIdle
    /\ EngineIdle
    /\ PeopleIdle
    /\ BuilderIdle
    /\ SchedulerIdle
    /\ NormalizeIdle
    /\ FeedbackIdle
    /\ QueueIdle
    /\ PipelineInit({1, 2}, {<< >>, <<1>>}, {<< >>, <<MaxStamp>>},
                    MaxPipeFrames)

NextPipeline ==
    \/ \E msec \in 0..MaxStamp :
          Pipeline_frame(msec, {"sampling"}, {"blocking"},
                         <<DefaultExpectedPeople>>)
          /\ UNCHANGED <<tagVars, engineVars, peopleVars, builderVars, schedVars,
                         normVars, feedbackVars, queueVars>>
    \/ Pipeline_stop
          /\ UNCHANGED <<tagVars, engineVars, peopleVars, builderVars, schedVars,
                         normVars, feedbackVars, queueVars>>

SpecPipeline == InitPipeline /\ [][NextPipeline]_vars

Init == InitTags

Next ==
    NextTags \/ NextEngine \/ NextPeople \/ NextSessions \/ NextReportAlarms
        \/ NextReportPeople \/ NextScheduler \/ NextNormalize \/ NextFeedback
        \/ NextQueue

Spec == Init /\ [][Next]_vars

====
